---- MODULE Spec2Model ----
(***************************************************************************)
(* Real-time subtitle pipeline (JifeSubtitles, jife-windows/app):          *)
(*   capture callback -> fixed chunks | VAD segmenter -> bounded work      *)
(*   queue -> dispatch loop (engine under engine_lock) -> send_subtitle,   *)
(*   plus the engine hot-swap (switch_model) and the /models/switch route. *)
(*                                                                         *)
(* Conventions                                                             *)
(*   - Python None is the string "None".                                   *)
(*   - A text is a sequence of one-character strings, so that lower(),     *)
(*     strip(), split() and substring search are computed, not assumed.    *)
(*   - Sample amplitudes are integers in units of 0.001 full scale.        *)
(*   - Each subsystem or scenario has its own specification (SpecQueue,    *)
(*     SpecSwap, SpecRoute, SpecVAD, SpecCapture, ...) over the one set of *)
(*     variables; a specification leaves the other subsystems' variables   *)
(*     unchanged.                                                          *)
(***************************************************************************)
EXTENDS Integers, Sequences, FiniteSets, TLC

VARIABLES
    \* ---- work queue and its producer (capture thread)
    audio_queue,        \* queue.Queue(maxsize=MAX_QUEUE_SIZE): items [id, samples]
    nextChunk,          \* number of chunks handed to _deliver_chunk so far
    fullDrops,          \* ids of chunks dropped on queue.Full ("Audio queue full")
    callbackLog,        \* chunks the registered callback received, in order
    capture_running,    \* AudioCapture._running
    \* ---- dispatch loop (processing_loop)
    shutdown_event,     \* threading.Event
    pcD,                \* position of the dispatch thread
    audio_chunk,        \* chunk the dispatch thread holds (id), 0 when none
    transcribed,        \* text transcribe() returned, held until the cycle ends
    newest_chunk,       \* backlog discard: the item last drained, id 0 when None
    translated,         \* ids of chunks passed to transcribe(), in call order
    last_output_text,   \* duplicate detection
    errorsLogged,       \* number of "Processing error" log lines
    nilSkips,           \* cycles that found whisper_engine None
    cycles,             \* the last two cycles in which transcribe() returned
    \* ---- shared engine
    whisper_engine,     \* "None" or an engine record
    engine_lock,        \* "free" | "dispatch" | "swap"
    \* ---- hot-swap thread (switch_model)
    pcS, swapArgs, old_engine, new_engine, swapReturn, creates, swapCalls,
    \* ---- web server presentation state (SubtitleServer)
    paused, subtitle_history, subtitles_sent, current_speaker,
    last_subtitle_time, latencies,
    clients_connected,  \* stats['clients_connected']
    emitted,            \* the last socketio.emit: [event, payload]
    gap_seen,           \* what the last delivery measured: [known, gap, speaker_before]
    pcSend,             \* position of a thread inside send_subtitle: "idle" | "appended"
    \* ---- /models/switch route
    current_model, model_switching, pcReq, reqModel, reqAnswer, switchThreads,
    \* ---- capture ring buffer (AudioCapture)
    buffer, native_samples_per_chunk, native_samples_overlap, overflowResets,
    callback, output_queue,
    feed,               \* synthetic input of the capture stage: [level, samples] fed so far
    buffer_lock,        \* AudioCapture.buffer_lock: "free" | "callback"
    pcC,                \* position of the sound device's thread inside _audio_callback
    resampled,          \* the chunk _audio_callback has extracted and is about to deliver
    \* ---- VAD segmenter (VADProcessor)
    speech_buffer, silence_frames, in_speech, pre_buffer, segments, scn

queueVars   == <<audio_queue, nextChunk, fullDrops, callbackLog, capture_running>>
dispVars    == <<shutdown_event, pcD, audio_chunk, translated, last_output_text,
                 errorsLogged, nilSkips, cycles, transcribed, newest_chunk>>
engineVars  == <<whisper_engine, engine_lock>>
swapVars    == <<pcS, swapArgs, old_engine, new_engine, swapReturn, creates, swapCalls>>
serverVars  == <<paused, subtitle_history, subtitles_sent, current_speaker,
                 last_subtitle_time, latencies, clients_connected, emitted,
                 gap_seen, pcSend>>
routeVars   == <<current_model, model_switching, pcReq, reqModel, reqAnswer,
                 switchThreads>>
captureVars == <<buffer, native_samples_per_chunk, native_samples_overlap,
                 overflowResets, callback, output_queue, feed, buffer_lock, pcC,
                 resampled>>
vadVars     == <<speech_buffer, silence_frames, in_speech, pre_buffer, segments, scn>>

vars == <<queueVars, dispVars, engineVars, swapVars, serverVars, routeVars,
          captureVars, vadVars>>

None == "None"

-----------------------------------------------------------------------------
(* Bounds of the model                                                     *)

\* chunks the capture thread extracts in one behaviour
MaxChunks == 6
\* accepted subtitles in one behaviour (caps stats['subtitles_sent'])
MaxSubtitles == 2
\* calls of switch_model in one behaviour
MaxSwaps == 2
\* chunks extracted while a hot-swap is studied
SwapChunks == 2
\* chunks extracted while the pause routes are studied
DispatchChunks == 3
\* subtitles accepted, and sinks connected, while the web server is studied
MaxServerSubtitles == 11
MaxClients == 1

-----------------------------------------------------------------------------
(* Program constants                                                       *)

MAX_QUEUE_SIZE == 5
max_history == 10
MaxLatencySamples == 20
\* speaker gap threshold, in tenths of a second (2.0 s)
SpeakerGapTenths == 20
\* RMS silence threshold in units of 0.001 (0.02)
SilenceRms == 20
\* 48000 / 16000
ResampleRatio == 3

speaker_colors == <<"#ffffff", "#00ffff", "#ffff00", "#ff88ff">>

-----------------------------------------------------------------------------
(* Strings as character sequences                                          *)

UpperChars == <<"A","B","C","D","E","F","G","H","I","J","K","L","M",
                "N","O","P","Q","R","S","T","U","V","W","X","Y","Z">>
LowerChars == <<"a","b","c","d","e","f","g","h","i","j","k","l","m",
                "n","o","p","q","r","s","t","u","v","w","x","y","z">>
DigitChars == {"0","1","2","3","4","5","6","7","8","9"}

LowerChar(c) ==
    IF \E i \in 1..Len(UpperChars) : UpperChars[i] = c
    THEN LowerChars[CHOOSE i \in 1..Len(UpperChars) : UpperChars[i] = c]
    ELSE c

\* str.lower()
Lower(s) == [i \in 1..Len(s) |-> LowerChar(s[i])]

IsSpace(c) == c = " "

\* \w of the re module, on the characters used here
IsWordChar(c) ==
    \/ \E i \in 1..Len(LowerChars) : LowerChars[i] = c \/ UpperChars[i] = c
    \/ c \in DigitChars
    \/ c = "_"

RECURSIVE LStrip(_)
LStrip(s) == IF s # <<>> /\ IsSpace(Head(s)) THEN LStrip(Tail(s)) ELSE s

RECURSIVE RStrip(_)
RStrip(s) ==
    IF s # <<>> /\ IsSpace(s[Len(s)]) THEN RStrip(SubSeq(s, 1, Len(s) - 1)) ELSE s

\* str.strip()
Strip(s) == RStrip(LStrip(s))

\* str.split(): split on runs of whitespace, no empty words
RECURSIVE SplitFrom(_, _, _)
SplitFrom(s, cur, acc) ==
    IF s = <<>>
    THEN IF cur = <<>> THEN acc ELSE Append(acc, cur)
    ELSE IF IsSpace(Head(s))
         THEN SplitFrom(Tail(s), <<>>, IF cur = <<>> THEN acc ELSE Append(acc, cur))
         ELSE SplitFrom(Tail(s), Append(cur, Head(s)), acc)

Split(s) == SplitFrom(s, <<>>, <<>>)

\* ' '.join(words)
RECURSIVE Join(_)
Join(ws) ==
    IF ws = <<>> THEN <<>>
    ELSE IF Len(ws) = 1 THEN ws[1]
    ELSE ws[1] \o <<" ">> \o Join(Tail(ws))

\* Python slice s[a:b] with 0-based a, b already clipped by the caller
Slice(s, a, b) ==
    LET hi == IF b > Len(s) THEN Len(s) ELSE b
    IN  IF a >= hi THEN <<>> ELSE SubSeq(s, a + 1, hi)

\* s.find(sub, pos): 0-based index of the first occurrence at or after pos, -1 if none
Find(s, sub, pos) ==
    LET hits == { i \in pos..(Len(s) - Len(sub)) : Slice(s, i, i + Len(sub)) = sub }
    IN  IF hits = {} THEN -1 ELSE CHOOSE i \in hits : \A j \in hits : i <= j

\* sub in s
Contains(sub, s) == Find(s, sub, 0) >= 0

\* the server's counting loop: count = 0; pos = 0;
\* while phrase in temp[pos:]: count += 1; pos = temp.find(phrase, pos) + len(phrase)
RECURSIVE CountFrom(_, _, _)
CountFrom(phrase, temp, pos) ==
    IF Find(temp, phrase, pos) >= 0
    THEN 1 + CountFrom(phrase, temp, Find(temp, phrase, pos) + Len(phrase))
    ELSE 0

\* re.sub(r'[^\w\s]', '', s)
RECURSIVE RemovePunct(_)
RemovePunct(s) ==
    IF s = <<>> THEN <<>>
    ELSE IF IsWordChar(Head(s)) \/ IsSpace(Head(s))
         THEN <<Head(s)>> \o RemovePunct(Tail(s))
         ELSE RemovePunct(Tail(s))

-----------------------------------------------------------------------------
(* Presentation-level hallucination filter (SubtitleServer)                *)

hallucination_phrases ==
  { <<"t", "h", "a", "n", "k", " ", "y", "o", "u", " ", "f", "o", "r", " ", "w", "a", "t", "c", "h", "i", "n", "g">>,
    <<"t", "h", "a", "n", "k", " ", "y", "o", "u", " ", "f", "o", "r", " ", "y", "o", "u", "r", " ", "v", "i", "e", "w", "i", "n", "g">>,
    <<"t", "h", "a", "n", "k", "s", " ", "f", "o", "r", " ", "w", "a", "t", "c", "h", "i", "n", "g">>,
    <<"t", "h", "a", "n", "k", " ", "y", "o", "u", " ", "v", "e", "r", "y", " ", "m", "u", "c", "h">>,
    <<"p", "l", "e", "a", "s", "e", " ", "s", "u", "b", "s", "c", "r", "i", "b", "e">>,
    <<"l", "i", "k", "e", " ", "a", "n", "d", " ", "s", "u", "b", "s", "c", "r", "i", "b", "e">>,
    <<"s", "e", "e", " ", "y", "o", "u", " ", "n", "e", "x", "t", " ", "t", "i", "m", "e">>,
    <<"s", "e", "e", " ", "y", "o", "u", " ", "i", "n", " ", "t", "h", "e", " ", "n", "e", "x", "t", " ", "v", "i", "d", "e", "o">>,
    <<"s", "e", "e", " ", "y", "o", "u", " ", "i", "n", " ", "t", "h", "e", " ", "n", "e", "x", "t">>,
    <<"b", "y", "e", " ", "b", "y", "e">>,
    <<"g", "o", "o", "d", "b", "y", "e">>,
    <<"t", "h", "e", " ", "e", "n", "d">>,
    <<"t", "o", " ", "b", "e", " ", "c", "o", "n", "t", "i", "n", "u", "e", "d">>,
    <<"s", "u", "b", "t", "i", "t", "l", "e", "s", " ", "b", "y">>,
    <<"c", "a", "p", "t", "i", "o", "n", "s", " ", "b", "y">>,
    <<"t", "r", "a", "n", "s", "l", "a", "t", "e", "d", " ", "b", "y">>,
    <<"i", "'", "l", "l", " ", "c", "o", "m", "e", " ", "b", "a", "c", "k", " ", "t", "o", " ", "y", "o", "u">>,
    <<"a", "n", "d", " ", "i", "'", "l", "l", " ", "c", "o", "m", "e", " ", "b", "a", "c", "k", " ", "t", "o", " ", "y", "o", "u">>,
    <<"i", "'", "l", "l", " ", "b", "e", " ", "b", "a", "c", "k">>,
    <<"i", " ", "w", "i", "l", "l", " ", "c", "o", "m", "e", " ", "b", "a", "c", "k">>,
    <<"i", "'", "l", "l", " ", "d", "i", "e">>,
    <<"i", " ", "w", "i", "l", "l", " ", "d", "i", "e">>,
    <<"i", "'", "l", "l", " ", "k", "i", "l", "l", " ", "y", "o", "u">>,
    <<"i", " ", "w", "i", "l", "l", " ", "k", "i", "l", "l", " ", "y", "o", "u">>,
    <<"k", "i", "l", "l", " ", "y", "o", "u">>,
    <<"d", "i", "e">>,
    <<"i", "'", "m", " ", "g", "o", "i", "n", "g", " ", "t", "o", " ", "d", "i", "e">>,
    <<"y", "o", "u", "'", "r", "e", " ", "g", "o", "i", "n", "g", " ", "t", "o", " ", "d", "i", "e">>,
    <<"i", "'", "m", " ", "d", "e", "a", "d">>,
    <<"d", "e", "a", "t", "h">>,
    <<"w", "h", "a", "t", "'", "s", " ", "t", "h", "a", "t">>,
    <<"w", "h", "a", "t", " ", "i", "s", " ", "t", "h", "a", "t">>,
    <<"w", "o", "w">>,
    <<"w", "h", "a", "t", "?">>,
    <<"i", "'", "m", " ", "g", "o", "i", "n", "g", " ", "t", "o", " ", "s", "l", "e", "e", "p">>,
    <<"i", "'", "m", " ", "g", "o", "i", "n", "g", " ", "t", "o", " ", "b", "e", "d">>,
    <<"g", "o", "i", "n", "g", " ", "t", "o", " ", "s", "l", "e", "e", "p">>,
    <<"i", "'", "m", " ", "g", "o", "i", "n", "g", " ", "t", "o", " ", "b", "e", " ", "a", "b", "l", "e", " ", "t", "o">>,
    <<"i", "'", "m", " ", "g", "o", "i", "n", "g", " ", "t", "o", " ", "b", "e">>,
    <<"g", "o", "i", "n", "g", " ", "t", "o", " ", "b", "e", " ", "a", "b", "l", "e", " ", "t", "o", " ", "d", "o", " ", "i", "t">>,
    <<"i", "'", "m", " ", "n", "o", "t", " ", "g", "o", "i", "n", "g", " ", "t", "o", " ", "b", "e", " ", "a", "b", "l", "e">>,
    <<"i", " ", "d", "o", "n", "'", "t", " ", "k", "n", "o", "w", " ", "w", "h", "a", "t", " ", "t", "o", " ", "d", "o">>,
    <<"i", " ", "d", "o", "n", "'", "t", " ", "k", "n", "o", "w", " ", "w", "h", "a", "t", " ", "t", "o", " ", "s", "a", "y">>,
    <<"i", " ", "d", "o", "n", "'", "t", " ", "k", "n", "o", "w">> }
short_hallucinations ==
  { <<"d", "i", "e">>,
    <<"n", "o">>,
    <<"y", "e", "s">>,
    <<"o", "h">>,
    <<"a", "h">>,
    <<"u", "h">>,
    <<"u", "m">>,
    <<"h", "m", "m">> }

\* variant: Pattern 1 looking at 5-word phrases only
RepeatedPhrase_FiveOnly(words, text_lower) ==
    /\ Len(words) >= 10
    /\ \E i \in 0..(Len(words) - 5) :
          CountFrom(Join(Slice(words, i, i + 5)), text_lower, 0) >= 2

\* Pattern 1: a 3..5-word phrase occurring twice or more (non-overlapping)
RepeatedPhrase(words, text_lower) ==
    /\ Len(words) >= 6
    /\ \E phrase_len \in {3, 4, 5} :
          /\ Len(words) >= phrase_len * 2
          /\ \E i \in 0..(Len(words) - phrase_len) :
                CountFrom(Join(Slice(words, i, i + phrase_len)), text_lower, 0) >= 2

\* Pattern 2: first half of the punctuation-free words equals the second half
RepeatedSentence(text_lower) ==
    LET clean_words == Split(RemovePunct(text_lower))
        mid == Len(clean_words) \div 2
    IN  /\ Len(clean_words) >= 4
        /\ Join(Slice(clean_words, 0, mid)) = Join(Slice(clean_words, mid, mid + mid))

\* Pattern 3: the first 1- or 2-word phrase repeated at the start ("No! No! No!")
ShortRepetition(words) ==
    /\ Len(words) >= 3
    /\ \E word_count \in {1, 2} :
          /\ Len(words) >= word_count * 3
          /\ LET lim == IF Len(words) < word_count * 4 THEN Len(words)
                        ELSE word_count * 4
             IN  \A i \in 0..(lim - 1) :
                    (i % word_count = 0 /\ i + word_count <= Len(words))
                    => Join(Slice(words, i, i + word_count))
                       = Join(Slice(words, 0, word_count))

_is_hallucination(text) ==
    LET text_lower == Strip(Lower(text))
        words == Split(text_lower)
    IN  \/ /\ Len(words) <= 2
           /\ \/ text_lower \in short_hallucinations
              \/ Len(words) = 1 /\ Len(text_lower) < 4
        \/ \E phrase \in hallucination_phrases : Contains(phrase, text_lower)
        \/ RepeatedPhrase(words, text_lower)
        \/ RepeatedSentence(text_lower)
        \/ ShortRepetition(words)

-----------------------------------------------------------------------------
(* Engine-level hallucination filter (whisper_engine.is_hallucination)     *)

\* each regex is ^(lit1|lit2|...)[tail]*$ ; wordtail adds \w and \s to [tail]
HALLUCINATION_PATTERNS ==
    { [lits |-> {<<"t", "h", "a", "n", "k", " ", "y", "o", "u">>},
       tail |-> {".", "!", "?"}, wordtail |-> FALSE],
      [lits |-> {<<"t", "h", "a", "n", "k", " ", "y", "o", "u", " ", "f", "o", "r", " ", "w", "a", "t", "c", "h", "i", "n", "g">>},
       tail |-> {".", "!", "?"}, wordtail |-> FALSE],
      [lits |-> {<<"t", "h", "a", "n", "k", " ", "y", "o", "u", " ", "f", "o", "r", " ", "y", "o", "u", "r", " ">>},
       tail |-> {".", "!", "?"}, wordtail |-> TRUE],
      [lits |-> {<<"t", "h", "a", "n", "k", " ", "y", "o", "u", " ", "f", "o", "r", " ">>},
       tail |-> {".", "!", "?"}, wordtail |-> TRUE],
      [lits |-> {<<"t", "h", "a", "n", "k", " ", "y", "o", "u", " ", "v", "e", "r", "y", " ", "m", "u", "c", "h">>},
       tail |-> {".", "!", "?"}, wordtail |-> FALSE],
      [lits |-> {<<"t", "h", "a", "n", "k", " ", "y", "o", "u", " ", "s", "o", " ", "m", "u", "c", "h">>},
       tail |-> {".", "!", "?"}, wordtail |-> FALSE],
      [lits |-> {<<"t", "h", "a", "n", "k", "s", " ", "f", "o", "r", " ", "w", "a", "t", "c", "h", "i", "n", "g">>},
       tail |-> {".", "!", "?"}, wordtail |-> FALSE],
      [lits |-> {<<"t", "h", "a", "n", "k", "s", " ", "f", "o", "r", " ">>},
       tail |-> {".", "!", "?"}, wordtail |-> TRUE],
      [lits |-> {<<"t", "h", "a", "n", "k", "s">>},
       tail |-> {".", "!", "?"}, wordtail |-> FALSE],
      [lits |-> {<<"l", "e", "t", "'", "s", " ", "g", "o">>},
       tail |-> {",", ".", "!", "?", " "}, wordtail |-> FALSE],
      [lits |-> {<<"w", "h", "a", "t">>},
       tail |-> {"?", "!", ",", ".", " "}, wordtail |-> FALSE],
      [lits |-> {<<"i", " ", "t", "h", "i", "n", "k">>},
       tail |-> {".", "!", "?", ",", " "}, wordtail |-> FALSE],
      [lits |-> {<<"i", "'", "m", " ", "s", "o", "r", "r", "y">>},
       tail |-> {".", "!", "?", ",", " "}, wordtail |-> FALSE],
      [lits |-> {<<"s", "o", "r", "r", "y">>},
       tail |-> {".", "!", "?", ",", " "}, wordtail |-> FALSE],
      [lits |-> {<<"t", "h", "a", "t", "'", "s", " ", "i", "t">>},
       tail |-> {".", "!", "?", ",", " "}, wordtail |-> FALSE],
      [lits |-> {<<"i", " ", "c", "a", "n", "'", "t", " ", "b", "e", "l", "i", "e", "v", "e", " ", "i", "t">>},
       tail |-> {".", "!", "?", ",", " "}, wordtail |-> FALSE],
      [lits |-> {<<"i", " ", "d", "o", "n", "'", "t", " ", "b", "e", "l", "i", "e", "v", "e", " ", "i", "t">>},
       tail |-> {".", "!", "?", ",", " "}, wordtail |-> FALSE],
      [lits |-> {<<"o", "h", " ", "m", "y", " ", "g", "o", "d">>},
       tail |-> {".", "!", "?", ",", " "}, wordtail |-> FALSE],
      [lits |-> {<<"o", "h", " ", "m", "y">>},
       tail |-> {".", "!", "?", ",", " "}, wordtail |-> FALSE],
      [lits |-> {<<"w", "o", "w">>},
       tail |-> {".", "!", "?", ",", " "}, wordtail |-> FALSE],
      [lits |-> {<<"b", "y", "e">>},
       tail |-> {".", "!", "?", ",", " "}, wordtail |-> FALSE],
      [lits |-> {<<"s", "e", "e", " ", "y", "o", "u">>},
       tail |-> {".", "!", "?", ",", " "}, wordtail |-> FALSE],
      [lits |-> {<<"g", "o", "o", "d", "b", "y", "e">>},
       tail |-> {".", "!", "?", ",", " "}, wordtail |-> FALSE],
      [lits |-> {<<"o", "k", "a", "y">>},
       tail |-> {".", "!", "?", ",", " "}, wordtail |-> FALSE],
      [lits |-> {<<"a", "l", "r", "i", "g", "h", "t">>},
       tail |-> {".", "!", "?", ",", " "}, wordtail |-> FALSE],
      [lits |-> {<<"y", "e", "a", "h">>},
       tail |-> {".", "!", "?", ",", " "}, wordtail |-> FALSE],
      [lits |-> {<<"y", "e", "s">>},
       tail |-> {".", "!", "?", ",", " "}, wordtail |-> FALSE],
      [lits |-> {<<"n", "o">>},
       tail |-> {".", "!", "?", ",", " "}, wordtail |-> FALSE],
      [lits |-> {<<"u", "h">>},
       tail |-> {".", "!", "?", ",", " "}, wordtail |-> FALSE],
      [lits |-> {<<"u", "m">>},
       tail |-> {".", "!", "?", ",", " "}, wordtail |-> FALSE],
      [lits |-> {<<"h", "u", "h">>},
       tail |-> {".", "!", "?", ",", " "}, wordtail |-> FALSE],
      [lits |-> {<<"p", "l", "e", "a", "s", "e", " ", "s", "u", "b", "s", "c", "r", "i", "b", "e">>},
       tail |-> {".", "!", "?", ",", " "}, wordtail |-> FALSE],
      [lits |-> {<<"s", "u", "b", "s", "c", "r", "i", "b", "e">>},
       tail |-> {".", "!", "?", ",", " "}, wordtail |-> FALSE],
      [lits |-> {<<"i", " ", "g", "o", "i", "n", "g", " ", "t", "o", " ", "k", "i", "l", "l", " ", "y", "o", "u">>, <<"i", " ", "g", "o", "n", "n", "a", " ", "k", "i", "l", "l", " ", "y", "o", "u">>, <<"i", "'", " ", "g", "o", "i", "n", "g", " ", "t", "o", " ", "k", "i", "l", "l", " ", "y", "o", "u">>, <<"i", "'", " ", "g", "o", "n", "n", "a", " ", "k", "i", "l", "l", " ", "y", "o", "u">>, <<"i", "m", " ", "g", "o", "i", "n", "g", " ", "t", "o", " ", "k", "i", "l", "l", " ", "y", "o", "u">>, <<"i", "m", " ", "g", "o", "n", "n", "a", " ", "k", "i", "l", "l", " ", "y", "o", "u">>, <<"i", "'", "m", " ", "g", "o", "i", "n", "g", " ", "t", "o", " ", "k", "i", "l", "l", " ", "y", "o", "u">>, <<"i", "'", "m", " ", "g", "o", "n", "n", "a", " ", "k", "i", "l", "l", " ", "y", "o", "u">>},
       tail |-> {".", "!", "?", ",", " "}, wordtail |-> FALSE],
      [lits |-> {<<"i", " ", "g", "o", "i", "n", "g", " ", "t", "o", " ", "d", "i", "e">>, <<"i", " ", "g", "o", "n", "n", "a", " ", "d", "i", "e">>, <<"i", "'", " ", "g", "o", "i", "n", "g", " ", "t", "o", " ", "d", "i", "e">>, <<"i", "'", " ", "g", "o", "n", "n", "a", " ", "d", "i", "e">>, <<"i", "m", " ", "g", "o", "i", "n", "g", " ", "t", "o", " ", "d", "i", "e">>, <<"i", "m", " ", "g", "o", "n", "n", "a", " ", "d", "i", "e">>, <<"i", "'", "m", " ", "g", "o", "i", "n", "g", " ", "t", "o", " ", "d", "i", "e">>, <<"i", "'", "m", " ", "g", "o", "n", "n", "a", " ", "d", "i", "e">>},
       tail |-> {".", "!", "?", ",", " "}, wordtail |-> FALSE],
      [lits |-> {<<"i", " ", "d", "o", "n", "t", " ", "k", "n", "o", "w">>, <<"i", " ", "d", "o", "n", "'", "t", " ", "k", "n", "o", "w">>},
       tail |-> {".", "!", "?", ",", " "}, wordtail |-> FALSE] }

StartsWith(s, prefix) == Len(s) >= Len(prefix) /\ SubSeq(s, 1, Len(prefix)) = prefix

\* re.match(pattern, s)
MatchesPattern(p, s) ==
    \E lit \in p.lits :
        /\ StartsWith(s, lit)
        /\ \A i \in (Len(lit) + 1)..Len(s) :
              \/ s[i] \in p.tail
              \/ p.wordtail /\ (IsWordChar(s[i]) \/ IsSpace(s[i]))

\* str.split(delim) for a one-character delimiter: empty pieces are kept
RECURSIVE SplitOnFrom(_, _, _, _)
SplitOnFrom(s, delim, cur, acc) ==
    IF s = <<>> THEN Append(acc, cur)
    ELSE IF Head(s) = delim
         THEN SplitOnFrom(Tail(s), delim, <<>>, Append(acc, cur))
         ELSE SplitOnFrom(Tail(s), delim, Append(cur, Head(s)), acc)

SplitOn(s, delim) == SplitOnFrom(s, delim, <<>>, <<>>)

\* [p.strip() for p in text_lower.split(delim) if p.strip()]
DelimParts(text_lower, delim) ==
    LET raw == SplitOn(text_lower, delim)
    IN  SelectSeq([i \in 1..Len(raw) |-> Strip(raw[i])], LAMBDA p : p # <<>>)

delimiters == <<",", ".", "!", "?", ";">>

RepeatedPart(text_lower) ==
    \E d \in 1..Len(delimiters) :
        /\ \E i \in 1..Len(text_lower) : text_lower[i] = delimiters[d]
        /\ LET parts == DelimParts(text_lower, delimiters[d])
           IN  /\ Len(parts) >= 2
               /\ \E i \in 1..Len(parts) :
                     /\ Len(parts[i]) >= 5
                     /\ Cardinality({ j \in 1..Len(parts) : parts[j] = parts[i] }) >= 2

\* variant: is_hallucination without the repetition check
is_hallucination_NoRepetition(text) ==
    \/ Len(Strip(text)) < 2
    \/ LET text_lower == Strip(Lower(text))
       IN  \/ \E p \in HALLUCINATION_PATTERNS : MatchesPattern(p, text_lower)
           \/ StartsWith(text_lower, <<"t","h","a","n","k"," ","y","o","u">>)
           \/ StartsWith(text_lower, <<"t","h","a","n","k","s">>)

is_hallucination(text) ==
    \/ Len(Strip(text)) < 2
    \/ LET text_lower == Strip(Lower(text))
       IN  \/ RepeatedPart(text_lower)
           \/ \E p \in HALLUCINATION_PATTERNS : MatchesPattern(p, text_lower)
           \/ StartsWith(text_lower, <<"t","h","a","n","k"," ","y","o","u">>)
           \/ StartsWith(text_lower, <<"t","h","a","n","k","s">>)

-----------------------------------------------------------------------------
(* Engines                                                                 *)

Engine(backend, model_name, beam_size, compute_type, loaded) ==
    [backend |-> backend, model |-> model_name, beam |-> beam_size,
     compute |-> compute_type, loaded |-> loaded]

\* no engine object (Python None in an engine variable)
NoEngine == Engine("None", "None", 0, "None", FALSE)

\* no switch request yet
NoRequest == [model |-> "None", compute |-> "None", beam |-> 0]

\* what the decoder of an engine may produce for a chunk
T_empty   == <<>>
T_short   == <<"a">>
T_hello   == <<"h", "e", "l", "l", "o", " ", "t", "h", "e", "r", "e">>
T_morning == <<"g", "o", "o", "d", " ", "m", "o", "r", "n", "i", "n", "g">>
T_bye     == <<"b", "y", "e", " ", "b", "y", "e">>

RawTexts == {T_empty, T_short, T_hello, T_morning, T_bye}

\* decoder outputs for the study of the two filters: the phrases "the cat sat" and
\* "on the mat", alone, repeated after a comma, and joined into a sentence
T_cat == <<"t", "h", "e", " ", "c", "a", "t", " ", "s", "a", "t">>
T_mat == <<"o", "n", " ", "t", "h", "e", " ", "m", "a", "t">>
T_cat_twice  == T_cat \o <<",", " ">> \o T_cat
T_cat_on_mat == T_cat \o <<" ">> \o T_mat
FilterRaws == {T_cat, T_cat_twice, T_cat_on_mat, T_mat \o <<",", " ">> \o T_mat}

\* decoder outputs for the study of repeated phrases: a word said twice ("the"), two
\* words said twice ("the mat"), three words said twice with no delimiter between
\* ("the cat sat"), one word said three times
T_by_mat == <<"b", "y", " ", "t", "h", "e", " ", "m", "a", "t">>
T_mat_by_mat == T_mat \o <<" ">> \o T_by_mat
T_cat_on_cat == T_cat \o <<" ", "o", "n", " ">> \o T_cat
T_go_go_go == <<"g", "o", " ", "g", "o", " ", "g", "o">>
PhraseRaws == {T_cat_on_mat, T_mat_by_mat, T_cat_on_cat, T_go_go_go}

\* engines whose transcribe() takes the target_language keyword the dispatch loop passes
AcceptsTargetLanguage(engine) == engine.backend = "faster_whisper"

\* text returned by FasterWhisperEngine.transcribe() for decoder output raw
TranscribeText(raw) ==
    LET text == Strip(raw)
    IN  IF is_hallucination(text) THEN <<>> ELSE text

\* the texts transcribe() can return
TranscribeResults == { TranscribeText(raw) : raw \in RawTexts }

fallback_order == <<"whisper_trt", "faster_whisper", "whisper">>

\* what create_engine(backend, ...) can return: the requested engine loaded, or one of
\* the other backends loaded (model_name and beam_size only); otherwise it raises
CreateEngineResults(backend, model_name, beam_size, compute_type) ==
    {Engine(backend, model_name, beam_size, compute_type, TRUE)}
    \cup { Engine(fallback_order[i], model_name, beam_size, None, TRUE) :
             i \in { j \in 1..Len(fallback_order) : fallback_order[j] # backend } }

\* engine requests of the model selector that switch_model can be called with
SwitchRequests ==
    { [model |-> "large-v3", compute |-> "float16", beam |-> 5],
      [model |-> "medium",   compute |-> "float16", beam |-> 5] }

\* the engine main() loads at startup (config defaults)
StartupEngines == CreateEngineResults("faster_whisper", "large-v3", 5, "float16")

-----------------------------------------------------------------------------
(* Work queue and _deliver_chunk                                           *)

RECURSIVE SumSq(_)
SumSq(chunk) == IF chunk = <<>> THEN 0 ELSE Head(chunk) * Head(chunk) + SumSq(Tail(chunk))

\* rms = sqrt(mean(chunk**2)); rms < 0.02, for resampled samples in units of 0.001/3
RmsBelowThreshold(chunk) ==
    SumSq(chunk) < (SilenceRms * ResampleRatio) * (SilenceRms * ResampleRatio) * Len(chunk)

\* variant: a queue without maxsize
PutNowait_Unbounded(q, item) == Append(q, item)

\* queue.put_nowait(item): the queue afterwards (unchanged on queue.Full)
PutNowait(q, item) == IF Len(q) >= MAX_QUEUE_SIZE THEN q ELSE Append(q, item)

\* variant: _deliver_chunk without the rms < 0.02 return
Deliver_NoGate(st, chunk, has_cb, has_q) ==
    LET id   == st.next + 1
        item == [id |-> id, samples |-> chunk]
    IN  [q     |-> IF has_q THEN PutNowait(st.q, item) ELSE st.q,
         cb    |-> IF has_cb THEN Append(st.cb, item) ELSE st.cb,
         next  |-> id,
         drops |-> IF has_q /\ Len(st.q) >= MAX_QUEUE_SIZE
                   THEN st.drops \cup {id} ELSE st.drops]

\* _deliver_chunk(chunk) on the capture state st = [q, cb, next, drops]
Deliver(st, chunk, has_cb, has_q) ==
    LET id   == st.next + 1
        item == [id |-> id, samples |-> chunk]
    IN  IF RmsBelowThreshold(chunk)
        THEN [st EXCEPT !.next = id]
        ELSE [q     |-> IF has_q THEN PutNowait(st.q, item) ELSE st.q,
              cb    |-> IF has_cb THEN Append(st.cb, item) ELSE st.cb,
              next  |-> id,
              drops |-> IF has_q /\ Len(st.q) >= MAX_QUEUE_SIZE
                        THEN st.drops \cup {id} ELSE st.drops]

CaptureState == [q |-> audio_queue, cb |-> callbackLog, next |-> nextChunk,
                 drops |-> fullDrops]

SetCaptureState(st) ==
    /\ audio_queue' = st.q
    /\ callbackLog' = st.cb
    /\ nextChunk' = st.next
    /\ fullDrops' = st.drops

\* resampled chunks the capture thread hands over in the pipeline: silence and speech
PipelineChunks == { <<0, 0>>, <<150, 150>> }

\* variant: output_queue.put(chunk), which waits while the queue is full
ProduceChunk_BlockingPut(chunk) ==
    /\ capture_running
    /\ nextChunk < MaxChunks
    /\ (output_queue /\ ~RmsBelowThreshold(chunk)) => Len(audio_queue) < MAX_QUEUE_SIZE
    /\ SetCaptureState(Deliver(CaptureState, chunk, callback, output_queue))
    /\ UNCHANGED <<capture_running, dispVars, engineVars, swapVars, serverVars,
                   routeVars, captureVars, vadVars>>

\* capture thread of the pipeline: the extracted, resampled chunk is delivered
ProduceChunk(chunk) ==
    /\ capture_running
    /\ nextChunk < MaxChunks
    /\ SetCaptureState(Deliver(CaptureState, chunk, callback, output_queue))
    /\ UNCHANGED <<capture_running, dispVars, engineVars, swapVars, serverVars,
                   routeVars, captureVars, vadVars>>

Produce == \E chunk \in PipelineChunks : ProduceChunk(chunk)

-----------------------------------------------------------------------------
(* SubtitleServer.send_subtitle and the pause routes                       *)

Gaps == {10, 20, 30}
\* the gaps the dispatch loop's deliveries are made with: below and above the threshold
DispatchGaps == {10, 30}
LatenciesMs == {800}

\* variant: send_subtitle without its paused test
Accepted_NoPauseTest(text) ==
    /\ text # <<>> /\ Strip(text) # <<>>
    /\ ~_is_hallucination(text)

\* whether send_subtitle(text) gets past its three early returns
Accepted(text) ==
    /\ text # <<>> /\ Strip(text) # <<>>
    /\ ~paused
    /\ ~_is_hallucination(text)

\* variant: send_subtitle without the speaker rotation
send_subtitle_NoRotation(text, latency_ms, gap) ==
    IF ~Accepted(text)
    THEN UNCHANGED serverVars
    ELSE LET speaker == current_speaker
             \* 'timestamp' is the ordinal of the delivery
             subtitle == [text |-> Strip(text), latency |-> latency_ms,
                          timestamp |-> subtitles_sent + 1,
                          speaker |-> speaker, color |-> speaker_colors[speaker + 1]]
             lat == IF latency_ms > 0 THEN Append(latencies, latency_ms) ELSE latencies
             hist == Append(subtitle_history, subtitle)
         IN  /\ current_speaker' = speaker
             /\ last_subtitle_time' = "set"
             /\ subtitles_sent' = subtitles_sent + 1
             /\ latencies' = IF Len(lat) > MaxLatencySamples THEN Tail(lat) ELSE lat
             /\ subtitle_history' = IF Len(hist) > max_history THEN Tail(hist) ELSE hist
             /\ emitted' = [event |-> "subtitle", payload |-> <<subtitle>>]
             /\ gap_seen' = [known |-> last_subtitle_time # None, gap |-> gap,
                             speaker_before |-> current_speaker]
             /\ UNCHANGED <<paused, clients_connected, pcSend>>

send_subtitle(text, latency_ms, gap) ==
    IF ~Accepted(text)
    THEN UNCHANGED serverVars
    ELSE LET speaker == IF last_subtitle_time # None /\ gap > SpeakerGapTenths
                        THEN (current_speaker + 1) % Len(speaker_colors)
                        ELSE current_speaker
             \* 'timestamp' is the ordinal of the delivery
             subtitle == [text |-> Strip(text), latency |-> latency_ms,
                          timestamp |-> subtitles_sent + 1,
                          speaker |-> speaker, color |-> speaker_colors[speaker + 1]]
             lat == IF latency_ms > 0 THEN Append(latencies, latency_ms) ELSE latencies
             hist == Append(subtitle_history, subtitle)
         IN  /\ current_speaker' = speaker
             /\ last_subtitle_time' = "set"
             /\ subtitles_sent' = subtitles_sent + 1
             /\ latencies' = IF Len(lat) > MaxLatencySamples THEN Tail(lat) ELSE lat
             /\ subtitle_history' = IF Len(hist) > max_history THEN Tail(hist) ELSE hist
             /\ emitted' = [event |-> "subtitle", payload |-> <<subtitle>>]
             /\ gap_seen' = [known |-> last_subtitle_time # None, gap |-> gap,
                             speaker_before |-> current_speaker]
             /\ UNCHANGED <<paused, clients_connected, pcSend>>

ServerFrame == UNCHANGED <<subtitle_history, subtitles_sent, current_speaker,
                           last_subtitle_time, latencies, clients_connected, emitted,
                           gap_seen, pcSend>>

pause ==
    /\ paused' = TRUE
    /\ ServerFrame
    /\ UNCHANGED <<queueVars, dispVars, engineVars, swapVars, routeVars, captureVars, vadVars>>

resume ==
    /\ paused' = FALSE
    /\ ServerFrame
    /\ UNCHANGED <<queueVars, dispVars, engineVars, swapVars, routeVars, captureVars, vadVars>>

toggle_pause ==
    /\ paused' = ~paused
    /\ ServerFrame
    /\ UNCHANGED <<queueVars, dispVars, engineVars, swapVars, routeVars, captureVars, vadVars>>

\* texts send_subtitle is called with when the server is studied on its own:
\* empty, rejected by the filter, accepted
ServerTexts == {T_empty, T_bye, T_hello}

OthersFrame == UNCHANGED <<queueVars, dispVars, engineVars, swapVars, routeVars,
                           captureVars, vadVars>>

\* a call of send_subtitle(text, latency_sec=..., ...), gap tenths of a second after
\* the previous delivery
SendSubtitle ==
    /\ \E text \in ServerTexts, latency_ms \in LatenciesMs, gap \in Gaps :
          /\ Accepted(text) => subtitles_sent < MaxServerSubtitles
          /\ send_subtitle(text, latency_ms, gap)
    /\ OthersFrame

\* send_subtitle step by step, as the server's threads see it (async_mode='threading',
\* no lock around the presentation state).  First step: the early returns passed,
\* speaker detection, counters, latency samples, subtitle_history.append(subtitle)
SendSubtitleAppend ==
    /\ pcSend = "idle"
    /\ subtitles_sent < MaxServerSubtitles
    /\ \E text \in ServerTexts, latency_ms \in LatenciesMs, gap \in Gaps :
          /\ Accepted(text)
          /\ LET speaker == IF last_subtitle_time # None /\ gap > SpeakerGapTenths
                            THEN (current_speaker + 1) % Len(speaker_colors)
                            ELSE current_speaker
                 subtitle == [text |-> Strip(text), latency |-> latency_ms,
                              timestamp |-> subtitles_sent + 1,
                              speaker |-> speaker, color |-> speaker_colors[speaker + 1]]
                 lat == IF latency_ms > 0 THEN Append(latencies, latency_ms) ELSE latencies
             IN  /\ current_speaker' = speaker
                 /\ last_subtitle_time' = "set"
                 /\ subtitles_sent' = subtitles_sent + 1
                 /\ latencies' = IF Len(lat) > MaxLatencySamples THEN Tail(lat) ELSE lat
                 /\ subtitle_history' = Append(subtitle_history, subtitle)
                 /\ gap_seen' = [known |-> last_subtitle_time # None, gap |-> gap,
                                 speaker_before |-> current_speaker]
    /\ pcSend' = "appended"
    /\ UNCHANGED <<paused, clients_connected, emitted>>
    /\ OthersFrame

\* second step: if len(self.subtitle_history) > self.max_history: pop(0), then
\* socketio.emit('subtitle', subtitle)
SendSubtitleTrim ==
    /\ pcSend = "appended"
    /\ subtitle_history' = IF Len(subtitle_history) > max_history
                           THEN Tail(subtitle_history) ELSE subtitle_history
    /\ emitted' = [event |-> "subtitle",
                   payload |-> <<subtitle_history[Len(subtitle_history)]>>]
    /\ pcSend' = "idle"
    /\ UNCHANGED <<paused, subtitles_sent, current_speaker, last_subtitle_time,
                   latencies, clients_connected, gap_seen>>
    /\ OthersFrame

\* socket event 'connect': the history is emitted when there is one
on_connect ==
    /\ clients_connected < MaxClients
    /\ clients_connected' = clients_connected + 1
    /\ IF subtitle_history # <<>>
       THEN emitted' = [event |-> "history", payload |-> subtitle_history]
       ELSE UNCHANGED emitted
    /\ UNCHANGED <<paused, subtitle_history, subtitles_sent, current_speaker,
                   last_subtitle_time, latencies, gap_seen, pcSend>>
    /\ OthersFrame

\* socket event 'disconnect'
on_disconnect ==
    /\ clients_connected' = IF clients_connected - 1 > 0 THEN clients_connected - 1 ELSE 0
    /\ UNCHANGED <<paused, subtitle_history, subtitles_sent, current_speaker,
                   last_subtitle_time, latencies, emitted, gap_seen, pcSend>>
    /\ OthersFrame

-----------------------------------------------------------------------------
(* Dispatch loop (processing_loop)                                         *)

DispatchFrame == UNCHANGED <<swapVars, routeVars, captureVars, vadVars>>

\* the record of the cycles keeps the two most recent
LastTwo(s) == IF Len(s) > 2 THEN Tail(s) ELSE s

\* variant: while True
DispatchLoopTest_NoShutdownTest ==
    /\ pcD = "top"
    /\ pcD' = "get"
    /\ UNCHANGED <<newest_chunk, shutdown_event, audio_chunk, translated, last_output_text,
                   errorsLogged, nilSkips, cycles, transcribed>>
    /\ UNCHANGED <<queueVars, engineVars, serverVars>>
    /\ DispatchFrame

\* while not shutdown_event.is_set()
DispatchLoopTest ==
    /\ pcD = "top"
    /\ pcD' = IF shutdown_event THEN "stopped" ELSE "get"
    /\ UNCHANGED <<newest_chunk, shutdown_event, audio_chunk, translated, last_output_text,
                   errorsLogged, nilSkips, cycles, transcribed>>
    /\ UNCHANGED <<queueVars, engineVars, serverVars>>
    /\ DispatchFrame

\* audio_queue.get(timeout=1.0) returns the oldest item
DispatchGet ==
    /\ pcD = "get"
    /\ audio_queue # <<>>
    /\ audio_chunk' = Head(audio_queue).id
    /\ audio_queue' = Tail(audio_queue)
    /\ pcD' = "acquire"
    /\ UNCHANGED <<nextChunk, fullDrops, callbackLog, capture_running>>
    /\ UNCHANGED <<newest_chunk, shutdown_event, translated, last_output_text, errorsLogged, nilSkips, cycles, transcribed>>
    /\ UNCHANGED <<engineVars, serverVars>>
    /\ DispatchFrame

\* queue.Empty after the timeout: continue
DispatchGetTimeout ==
    /\ pcD = "get"
    /\ audio_queue = <<>>
    /\ pcD' = "top"
    /\ UNCHANGED <<newest_chunk, shutdown_event, audio_chunk, translated, last_output_text,
                   errorsLogged, nilSkips, cycles, transcribed>>
    /\ UNCHANGED <<queueVars, engineVars, serverVars>>
    /\ DispatchFrame

\* with engine_lock:
DispatchAcquire ==
    /\ pcD = "acquire"
    /\ engine_lock = "free"
    /\ engine_lock' = "dispatch"
    /\ pcD' = "locked"
    /\ UNCHANGED <<newest_chunk, shutdown_event, audio_chunk, translated, last_output_text,
                   errorsLogged, nilSkips, cycles, transcribed>>
    /\ UNCHANGED <<whisper_engine, queueVars, serverVars>>
    /\ DispatchFrame

\* if whisper_engine is None: time.sleep(0.1) (still inside the with block)
DispatchEngineNone ==
    /\ pcD = "locked"
    /\ whisper_engine = NoEngine
    /\ pcD' = "nil_sleep"
    /\ nilSkips' = nilSkips + 1
    /\ UNCHANGED <<newest_chunk, shutdown_event, audio_chunk, translated, last_output_text, errorsLogged, cycles, transcribed>>
    /\ UNCHANGED <<queueVars, engineVars, serverVars>>
    /\ DispatchFrame

\* continue: leaves the with block, the chunk is not translated
DispatchNoneContinue ==
    /\ pcD = "nil_sleep"
    /\ engine_lock' = "free"
    /\ audio_chunk' = 0
    /\ pcD' = "top"
    /\ UNCHANGED <<newest_chunk, shutdown_event, translated, last_output_text, errorsLogged, nilSkips, cycles, transcribed>>
    /\ UNCHANGED <<whisper_engine, queueVars, serverVars>>
    /\ DispatchFrame

\* variant: the loop without its "if whisper_engine is None" test
DispatchTranscribeCall_NoNoneTest ==
    /\ pcD = "locked"
    /\ translated' = Append(translated, audio_chunk)
    /\ pcD' = "translating"
    /\ UNCHANGED <<newest_chunk, shutdown_event, audio_chunk, last_output_text, errorsLogged, nilSkips, cycles, transcribed>>
    /\ UNCHANGED <<queueVars, engineVars, serverVars>>
    /\ DispatchFrame

\* whisper_engine.transcribe(audio_chunk, task=..., language=..., target_language=...)
DispatchTranscribeCall ==
    /\ pcD = "locked"
    /\ whisper_engine # NoEngine
    /\ translated' = Append(translated, audio_chunk)
    /\ pcD' = "translating"
    /\ UNCHANGED <<newest_chunk, shutdown_event, audio_chunk, last_output_text, errorsLogged, nilSkips, cycles, transcribed>>
    /\ UNCHANGED <<queueVars, engineVars, serverVars>>
    /\ DispatchFrame

\* variant: the loop without its try/except, the exception ends the thread
DispatchTranscribeRaise_Uncaught ==
    /\ pcD = "translating"
    /\ engine_lock' = "free"
    /\ errorsLogged' = errorsLogged + 1
    /\ audio_chunk' = 0
    /\ pcD' = "stopped"
    /\ UNCHANGED <<newest_chunk, shutdown_event, translated, last_output_text, nilSkips, cycles, transcribed>>
    /\ UNCHANGED <<whisper_engine, queueVars, serverVars>>
    /\ DispatchFrame

\* transcribe() raises (TypeError for an engine without target_language, RuntimeError
\* for an engine not loaded, or any failure of the decoder): the with block is left,
\* except Exception logs the error
DispatchTranscribeRaise ==
    /\ pcD = "translating"
    /\ engine_lock' = "free"
    /\ errorsLogged' = errorsLogged + 1
    /\ audio_chunk' = 0
    /\ pcD' = "backoff"
    /\ UNCHANGED <<newest_chunk, shutdown_event, translated, last_output_text, nilSkips, cycles, transcribed>>
    /\ UNCHANGED <<whisper_engine, queueVars, serverVars>>
    /\ DispatchFrame

\* variant: an empty result forgets the last output
TranscribeReturnWith_EmptyResets(raws, observed) ==
    /\ pcD = "translating"
    /\ AcceptsTargetLanguage(whisper_engine)
    /\ whisper_engine.loaded
    /\ \E raw \in raws, latency_ms \in LatenciesMs, gap \in DispatchGaps :
       LET text == TranscribeText(raw) IN
          /\ IF text = <<>> \/ Len(Strip(text)) < 2
             THEN last_output_text' = <<>> /\ UNCHANGED serverVars
             ELSE IF text = last_output_text
             THEN UNCHANGED <<last_output_text, serverVars>>
             ELSE /\ Accepted(text) => subtitles_sent < MaxSubtitles
                  /\ last_output_text' = text
                  /\ send_subtitle(text, latency_ms, gap)
          /\ cycles' = IF observed
                        THEN LastTwo(Append(cycles,
                                [raw |-> raw, text |-> text, before |-> last_output_text,
                                 paused |-> paused, sent |-> subtitles_sent' # subtitles_sent]))
                        ELSE cycles
    /\ engine_lock' = "free"
    /\ audio_chunk' = 0
    /\ pcD' = "top"
    /\ UNCHANGED <<newest_chunk, shutdown_event, translated, errorsLogged, nilSkips, transcribed>>
    /\ UNCHANGED <<whisper_engine, queueVars>>
    /\ DispatchFrame

\* variant: the loop without its duplicate test
TranscribeReturnWith_NoDedupe(raws, observed) ==
    /\ pcD = "translating"
    /\ AcceptsTargetLanguage(whisper_engine)
    /\ whisper_engine.loaded
    /\ \E raw \in raws, latency_ms \in LatenciesMs, gap \in DispatchGaps :
       LET text == TranscribeText(raw) IN
          /\ IF text = <<>> \/ Len(Strip(text)) < 2
             THEN UNCHANGED <<last_output_text, serverVars>>
             ELSE /\ Accepted(text) => subtitles_sent < MaxSubtitles
                  /\ last_output_text' = text
                  /\ send_subtitle(text, latency_ms, gap)
          /\ cycles' = IF observed
                        THEN LastTwo(Append(cycles,
                                [raw |-> raw, text |-> text, before |-> last_output_text,
                                 paused |-> paused, sent |-> subtitles_sent' # subtitles_sent]))
                        ELSE cycles
    /\ engine_lock' = "free"
    /\ audio_chunk' = 0
    /\ pcD' = "top"
    /\ UNCHANGED <<newest_chunk, shutdown_event, translated, errorsLogged, nilSkips, transcribed>>
    /\ UNCHANGED <<whisper_engine, queueVars>>
    /\ DispatchFrame

\* transcribe() returns text: empty check, duplicate check, send_subtitle; every path
\* leaves the with block
TranscribeReturnWith(raws, observed) ==
    /\ pcD = "translating"
    /\ AcceptsTargetLanguage(whisper_engine)
    /\ whisper_engine.loaded
    /\ \E raw \in raws, latency_ms \in LatenciesMs, gap \in DispatchGaps :
       LET text == TranscribeText(raw) IN
          /\ IF text = <<>> \/ Len(Strip(text)) < 2
             THEN UNCHANGED <<last_output_text, serverVars>>
             ELSE IF text = last_output_text
             THEN UNCHANGED <<last_output_text, serverVars>>
             ELSE /\ Accepted(text) => subtitles_sent < MaxSubtitles
                  /\ last_output_text' = text
                  /\ send_subtitle(text, latency_ms, gap)
          /\ cycles' = IF observed
                        THEN LastTwo(Append(cycles,
                                [raw |-> raw, text |-> text, before |-> last_output_text,
                                 paused |-> paused, sent |-> subtitles_sent' # subtitles_sent]))
                        ELSE cycles
    /\ engine_lock' = "free"
    /\ audio_chunk' = 0
    /\ pcD' = "top"
    /\ UNCHANGED <<newest_chunk, shutdown_event, translated, errorsLogged, nilSkips, transcribed>>
    /\ UNCHANGED <<whisper_engine, queueVars>>
    /\ DispatchFrame

\* the dispatch loop with the decoder outputs of the pipeline
DispatchTranscribeReturn == TranscribeReturnWith(RawTexts, FALSE)

\* the same step, with the record of the last two cycles kept
ObservedTranscribeReturn == TranscribeReturnWith(RawTexts, TRUE)

\* the dispatch loop with the decoder outputs of the filter study
FilterTranscribeReturn == TranscribeReturnWith(FilterRaws, TRUE)

\* the dispatch loop with the decoder outputs of the study of repeated phrases
PhraseTranscribeReturn == TranscribeReturnWith(PhraseRaws, TRUE)

\* the cycle step by step: transcribe() returns its text, the thread still inside
\* the with engine_lock block
DispatchTranscribeDone ==
    /\ pcD = "translating"
    /\ AcceptsTargetLanguage(whisper_engine)
    /\ whisper_engine.loaded
    /\ \E raw \in RawTexts : transcribed' = TranscribeText(raw)
    /\ pcD' = "returned"
    /\ UNCHANGED <<newest_chunk, shutdown_event, audio_chunk, translated, last_output_text,
                   errorsLogged, nilSkips, cycles>>
    /\ UNCHANGED <<queueVars, engineVars, serverVars>>
    /\ DispatchFrame

\* the rest of the with block: empty check, duplicate check under last_output_lock,
\* send_subtitle; the continue statements and the end of the block release the lock
DispatchDeliver ==
    /\ pcD = "returned"
    /\ \E latency_ms \in LatenciesMs, gap \in DispatchGaps :
          IF transcribed = <<>> \/ Len(Strip(transcribed)) < 2
          THEN UNCHANGED <<last_output_text, serverVars>>
          ELSE IF transcribed = last_output_text
          THEN UNCHANGED <<last_output_text, serverVars>>
          ELSE /\ Accepted(transcribed) => subtitles_sent < MaxSubtitles
               /\ last_output_text' = transcribed
               /\ send_subtitle(transcribed, latency_ms, gap)
    /\ engine_lock' = "free"
    /\ transcribed' = <<>>
    /\ audio_chunk' = 0
    /\ pcD' = "top"
    /\ UNCHANGED <<newest_chunk, shutdown_event, translated, errorsLogged, nilSkips, cycles>>
    /\ UNCHANGED <<whisper_engine, queueVars>>
    /\ DispatchFrame

\* time.sleep(0.5) in the except branch, then the loop goes on
DispatchBackoff ==
    /\ pcD = "backoff"
    /\ pcD' = "top"
    /\ UNCHANGED <<newest_chunk, shutdown_event, audio_chunk, translated, last_output_text,
                   errorsLogged, nilSkips, cycles, transcribed>>
    /\ UNCHANGED <<queueVars, engineVars, serverVars>>
    /\ DispatchFrame

\* signal_handler: shutdown_event.set()
signal_handler ==
    /\ ~shutdown_event
    /\ shutdown_event' = TRUE
    /\ UNCHANGED <<newest_chunk, pcD, audio_chunk, translated, last_output_text, errorsLogged, nilSkips, cycles, transcribed>>
    /\ UNCHANGED <<queueVars, engineVars, serverVars>>
    /\ DispatchFrame

\* main() cleanup: audio_capture.stop()
MainCleanup ==
    /\ shutdown_event
    /\ capture_running
    /\ capture_running' = FALSE
    /\ UNCHANGED <<audio_queue, nextChunk, fullDrops, callbackLog>>
    /\ UNCHANGED <<dispVars, engineVars, serverVars>>
    /\ DispatchFrame

-----------------------------------------------------------------------------
(* Dispatch loop of subtitle-product/app (processing_loop): the backlog     *)
(* discard in front of the dequeue; this loop takes no engine lock          *)

\* newest_chunk = None
NoChunk == [id |-> 0, samples |-> <<>>]

\* chunks the capture thread of the backlog scenario delivers in all
BacklogChunks == 8

\* capture thread: _deliver_chunk drops a silent chunk, else put_nowait
BacklogProduce ==
    /\ capture_running
    /\ nextChunk < BacklogChunks
    /\ \E chunk \in PipelineChunks :
          SetCaptureState(Deliver(CaptureState, chunk, callback, output_queue))
    /\ UNCHANGED <<capture_running, dispVars, engineVars, swapVars, serverVars,
                   routeVars, captureVars, vadVars>>

\* while not shutdown_event.is_set(): queue_size = audio_queue.qsize();
\* if queue_size > 1: newest_chunk = NoChunk
BacklogLoopTest ==
    /\ pcD = "top"
    /\ IF shutdown_event
       THEN pcD' = "stopped" /\ UNCHANGED newest_chunk
       ELSE IF Len(audio_queue) > 1
            THEN pcD' = "drain" /\ newest_chunk' = NoChunk
            ELSE pcD' = "get" /\ UNCHANGED newest_chunk
    /\ UNCHANGED <<shutdown_event, audio_chunk, translated, last_output_text,
                   errorsLogged, nilSkips, cycles, transcribed>>
    /\ UNCHANGED <<queueVars, engineVars, serverVars>>
    /\ DispatchFrame

\* while not audio_queue.empty(): newest_chunk = audio_queue.get_nowait()
BacklogDrain ==
    /\ pcD = "drain"
    /\ IF audio_queue = <<>>
       THEN pcD' = "putback" /\ UNCHANGED <<newest_chunk, audio_queue>>
       ELSE /\ newest_chunk' = Head(audio_queue)
            /\ audio_queue' = Tail(audio_queue)
            /\ pcD' = "drain"
    /\ UNCHANGED <<nextChunk, fullDrops, callbackLog, capture_running>>
    /\ UNCHANGED <<shutdown_event, audio_chunk, translated, last_output_text,
                   errorsLogged, nilSkips, cycles, transcribed>>
    /\ UNCHANGED <<engineVars, serverVars>>
    /\ DispatchFrame

\* if newest_chunk is not None: audio_queue.put(newest_chunk); put() has no timeout
\* and waits while the queue holds MAX_QUEUE_SIZE items
BacklogPutBack ==
    /\ pcD = "putback"
    /\ IF newest_chunk = NoChunk
       THEN UNCHANGED audio_queue
       ELSE /\ Len(audio_queue) < MAX_QUEUE_SIZE
            /\ audio_queue' = Append(audio_queue, newest_chunk)
    /\ pcD' = "get"
    /\ UNCHANGED <<nextChunk, fullDrops, callbackLog, capture_running>>
    /\ UNCHANGED <<newest_chunk, shutdown_event, audio_chunk, translated, last_output_text,
                   errorsLogged, nilSkips, cycles, transcribed>>
    /\ UNCHANGED <<engineVars, serverVars>>
    /\ DispatchFrame

\* audio_chunk = audio_queue.get(timeout=1.0), then whisper_engine.transcribe(audio_chunk)
\* is called
BacklogGet ==
    /\ pcD = "get"
    /\ audio_queue # <<>>
    /\ audio_chunk' = Head(audio_queue).id
    /\ audio_queue' = Tail(audio_queue)
    /\ translated' = Append(translated, Head(audio_queue).id)
    /\ pcD' = "translating"
    /\ UNCHANGED <<nextChunk, fullDrops, callbackLog, capture_running>>
    /\ UNCHANGED <<newest_chunk, shutdown_event, last_output_text, errorsLogged, nilSkips, cycles, transcribed>>
    /\ UNCHANGED <<engineVars, serverVars>>
    /\ DispatchFrame

\* transcribe() returns: an empty or one-character text is skipped, any other text
\* goes to web_server.send_subtitle (the presentation state of that server is
\* counted in subtitles_sent only)
BacklogTranscribeReturn ==
    /\ pcD = "translating"
    /\ \E raw \in RawTexts :
          /\ transcribed' = raw
          /\ IF raw = <<>> \/ Len(Strip(raw)) < 2
             THEN UNCHANGED subtitles_sent
             ELSE subtitles_sent' = subtitles_sent + 1
    /\ audio_chunk' = 0
    /\ pcD' = "top"
    /\ UNCHANGED <<newest_chunk, shutdown_event, translated, last_output_text, errorsLogged, nilSkips, cycles>>
    /\ UNCHANGED <<paused, subtitle_history, current_speaker, last_subtitle_time, latencies,
                   clients_connected, emitted, gap_seen, pcSend>>
    /\ UNCHANGED <<queueVars, engineVars>>
    /\ DispatchFrame

\* transcribe() raises: except Exception logs the error
BacklogTranscribeRaise ==
    /\ pcD = "translating"
    /\ errorsLogged' = errorsLogged + 1
    /\ audio_chunk' = 0
    /\ pcD' = "backoff"
    /\ UNCHANGED <<newest_chunk, shutdown_event, translated, last_output_text, nilSkips, cycles, transcribed>>
    /\ UNCHANGED <<queueVars, engineVars, serverVars>>
    /\ DispatchFrame

-----------------------------------------------------------------------------
(* Engine hot-swap (switch_model), run by one background thread            *)

SwapFrame == UNCHANGED <<queueVars, dispVars, serverVars, routeVars, captureVars, vadVars>>

\* switch_model(model_name, compute_type, beam_size) is entered
SwitchModelCall ==
    /\ pcS = "idle"
    /\ swapCalls < MaxSwaps
    /\ \E req \in SwitchRequests : swapArgs' = req
    /\ swapCalls' = swapCalls + 1
    /\ swapReturn' = "running"
    /\ creates' = <<>>
    /\ pcS' = "take_old"
    /\ UNCHANGED <<old_engine, new_engine, engineVars>>
    /\ SwapFrame


\* variant: Step 1 entered without waiting for engine_lock
SwapLockOld_NoWait ==
    /\ pcS = "take_old"
    /\ engine_lock' = "swap"
    /\ pcS' = "take_old_locked"
    /\ UNCHANGED <<swapArgs, old_engine, new_engine, swapReturn, creates, swapCalls,
                   whisper_engine>>
    /\ SwapFrame

\* Step 1: with engine_lock: (acquire)
SwapLockOld ==
    /\ pcS = "take_old"
    /\ engine_lock = "free"
    /\ engine_lock' = "swap"
    /\ pcS' = "take_old_locked"
    /\ UNCHANGED <<swapArgs, old_engine, new_engine, swapReturn, creates, swapCalls,
                   whisper_engine>>
    /\ SwapFrame

\* variant: Step 1 without the end of its with block, the lock kept through the load
SwapTakeOld_KeepLock ==
    /\ pcS = "take_old_locked"
    /\ old_engine' = whisper_engine
    /\ whisper_engine' = NoEngine
    /\ pcS' = "unload"
    /\ UNCHANGED <<swapArgs, new_engine, swapReturn, creates, swapCalls, engine_lock>>
    /\ SwapFrame

\* old_engine = whisper_engine; whisper_engine = None (release)
SwapTakeOld ==
    /\ pcS = "take_old_locked"
    /\ old_engine' = whisper_engine
    /\ whisper_engine' = NoEngine
    /\ engine_lock' = "free"
    /\ pcS' = "unload"
    /\ UNCHANGED <<swapArgs, new_engine, swapReturn, creates, swapCalls>>
    /\ SwapFrame

\* variant: switch_model without "del old_engine"
SwapUnload_KeepOld ==
    /\ pcS = "unload"
    /\ pcS' = "create"
    /\ UNCHANGED <<swapArgs, old_engine, new_engine, swapReturn, creates, swapCalls,
                   engineVars>>
    /\ SwapFrame

\* del old_engine; gc.collect(); torch.cuda.empty_cache(); time.sleep(0.5)
SwapUnload ==
    /\ pcS = "unload"
    /\ old_engine' = NoEngine
    /\ pcS' = "create"
    /\ UNCHANGED <<swapArgs, new_engine, swapReturn, creates, swapCalls, engineVars>>
    /\ SwapFrame

\* Step 3: create_engine(...) constructs the engine object and starts engine.load()
SwapCreateBegin ==
    /\ pcS = "create"
    /\ new_engine' = Engine("faster_whisper", swapArgs.model, swapArgs.beam,
                            swapArgs.compute, FALSE)
    /\ creates' = Append(creates, swapArgs)
    /\ pcS' = "loading"
    /\ UNCHANGED <<swapArgs, old_engine, swapReturn, swapCalls, engineVars>>
    /\ SwapFrame

\* create_engine returns a loaded engine
SwapCreateReturn ==
    /\ pcS = "loading"
    /\ \E e \in CreateEngineResults("faster_whisper", swapArgs.model, swapArgs.beam,
                                    swapArgs.compute) :
          new_engine' = e
    /\ pcS' = "install"
    /\ UNCHANGED <<swapArgs, old_engine, swapReturn, creates, swapCalls, engineVars>>
    /\ SwapFrame

\* create_engine raises: except Exception, "Attempting to recover with medium model"
SwapCreateRaise ==
    /\ pcS = "loading"
    /\ new_engine' = NoEngine
    /\ pcS' = "recover"
    /\ UNCHANGED <<swapArgs, old_engine, swapReturn, creates, swapCalls, engineVars>>
    /\ SwapFrame

\* Step 4: with engine_lock: (acquire)
SwapLockNew ==
    /\ pcS = "install"
    /\ engine_lock = "free"
    /\ engine_lock' = "swap"
    /\ pcS' = "install_locked"
    /\ UNCHANGED <<swapArgs, old_engine, new_engine, swapReturn, creates, swapCalls,
                   whisper_engine>>
    /\ SwapFrame

\* whisper_engine = new_engine (release); return True
SwapInstall ==
    /\ pcS = "install_locked"
    /\ whisper_engine' = new_engine
    /\ new_engine' = NoEngine
    /\ engine_lock' = "free"
    /\ swapReturn' = "True"
    /\ pcS' = "idle"
    /\ UNCHANGED <<swapArgs, old_engine, creates, swapCalls>>
    /\ SwapFrame

RecoveryRequest == [model |-> "medium", compute |-> "int8", beam |-> 3]

\* recovery: create_engine('faster_whisper', 'medium', beam_size=3, compute_type='int8')
SwapRecoverBegin ==
    /\ pcS = "recover"
    /\ new_engine' = Engine("faster_whisper", RecoveryRequest.model, RecoveryRequest.beam,
                            RecoveryRequest.compute, FALSE)
    /\ creates' = Append(creates, RecoveryRequest)
    /\ pcS' = "recover_loading"
    /\ UNCHANGED <<swapArgs, old_engine, swapReturn, swapCalls, engineVars>>
    /\ SwapFrame

SwapRecoverReturn ==
    /\ pcS = "recover_loading"
    /\ \E e \in CreateEngineResults("faster_whisper", RecoveryRequest.model,
                                    RecoveryRequest.beam, RecoveryRequest.compute) :
          new_engine' = e
    /\ pcS' = "recover_install"
    /\ UNCHANGED <<swapArgs, old_engine, swapReturn, creates, swapCalls, engineVars>>
    /\ SwapFrame

\* variant: a failed recovery is tried again
SwapRecoverRaise_Retry ==
    /\ pcS = "recover_loading"
    /\ new_engine' = NoEngine
    /\ pcS' = "recover"
    /\ UNCHANGED <<swapArgs, old_engine, swapReturn, creates, swapCalls, engineVars>>
    /\ SwapFrame

\* "Recovery also failed": the engine stays None; return False
SwapRecoverRaise ==
    /\ pcS = "recover_loading"
    /\ new_engine' = NoEngine
    /\ swapReturn' = "False"
    /\ pcS' = "idle"
    /\ UNCHANGED <<swapArgs, old_engine, creates, swapCalls, engineVars>>
    /\ SwapFrame

\* with engine_lock: (acquire)
SwapLockRecovery ==
    /\ pcS = "recover_install"
    /\ engine_lock = "free"
    /\ engine_lock' = "swap"
    /\ pcS' = "recover_install_locked"
    /\ UNCHANGED <<swapArgs, old_engine, new_engine, swapReturn, creates, swapCalls,
                   whisper_engine>>
    /\ SwapFrame

\* whisper_engine = recovery_engine (release); return False
SwapInstallRecovery ==
    /\ pcS = "recover_install_locked"
    /\ whisper_engine' = new_engine
    /\ new_engine' = NoEngine
    /\ engine_lock' = "free"
    /\ swapReturn' = "False"
    /\ pcS' = "idle"
    /\ UNCHANGED <<swapArgs, old_engine, creates, swapCalls>>
    /\ SwapFrame

-----------------------------------------------------------------------------
(* POST /models/switch (SubtitleServer._register_routes.switch_model)      *)

\* request-handling threads of the threaded web server
MaxRequests == 2
RequestThreads == 1..MaxRequests

\* ids of AVAILABLE_MODELS that a client can ask for
AvailableModelIds == {"large-v3:float16:5", "medium:float16:5"}
RequestedIds == AvailableModelIds \cup {"", "bogus:float16:5"}

\* do_switch passes (model, compute_type, beam_size, backend); the registered
\* callback is main.switch_model(model_name, compute_type, beam_size)
SwitchCallArgs == 4
SwitchModelParams == 3

RouteFrame == UNCHANGED <<queueVars, dispVars, engineVars, swapVars, serverVars,
                          captureVars, vadVars>>

\* the request is parsed: missing or unknown model ids are answered 400
RouteSwitchModel(t, model_id) ==
    /\ pcReq[t] = "idle"
    /\ switchThreads[t] = "none"
    /\ reqModel' = [reqModel EXCEPT ![t] = model_id]
    /\ IF model_id \notin AvailableModelIds
       THEN /\ reqAnswer' = [reqAnswer EXCEPT ![t] = "400"]
            /\ UNCHANGED pcReq
       ELSE /\ reqAnswer' = [reqAnswer EXCEPT ![t] = "None"]
            /\ pcReq' = [pcReq EXCEPT ![t] = "check_switching"]
    /\ UNCHANGED <<current_model, model_switching, switchThreads>>
    /\ RouteFrame

\* if self.model_switching: return 409
RouteCheckSwitching(t) ==
    /\ pcReq[t] = "check_switching"
    /\ IF model_switching
       THEN /\ reqAnswer' = [reqAnswer EXCEPT ![t] = "409"]
            /\ pcReq' = [pcReq EXCEPT ![t] = "idle"]
       ELSE /\ pcReq' = [pcReq EXCEPT ![t] = "check_current"]
            /\ UNCHANGED reqAnswer
    /\ UNCHANGED <<current_model, model_switching, reqModel, switchThreads>>
    /\ RouteFrame

\* if model_id == self.current_model: return already_loaded
RouteCheckCurrent(t) ==
    /\ pcReq[t] = "check_current"
    /\ IF reqModel[t] = current_model
       THEN /\ reqAnswer' = [reqAnswer EXCEPT ![t] = "already_loaded"]
            /\ pcReq' = [pcReq EXCEPT ![t] = "idle"]
       ELSE /\ pcReq' = [pcReq EXCEPT ![t] = "start"]
            /\ UNCHANGED reqAnswer
    /\ UNCHANGED <<current_model, model_switching, reqModel, switchThreads>>
    /\ RouteFrame

\* self.model_switching = True; threading.Thread(target=do_switch).start();
\* return switching
RouteStartSwitch(t) ==
    /\ pcReq[t] = "start"
    /\ model_switching' = TRUE
    /\ switchThreads' = [switchThreads EXCEPT ![t] = "call"]
    /\ reqAnswer' = [reqAnswer EXCEPT ![t] = "switching"]
    /\ pcReq' = [pcReq EXCEPT ![t] = "idle"]
    /\ UNCHANGED <<current_model, reqModel>>
    /\ RouteFrame

\* do_switch: the callback is called with one argument too many, the TypeError is
\* caught by except Exception ('model_switch_failed' is emitted)
DoSwitchCall(t) ==
    /\ switchThreads[t] = "call"
    /\ SwitchCallArgs > SwitchModelParams
    /\ switchThreads' = [switchThreads EXCEPT ![t] = "finally"]
    /\ UNCHANGED <<current_model, model_switching, pcReq, reqModel, reqAnswer>>
    /\ RouteFrame

\* finally: self.model_switching = False
DoSwitchFinally(t) ==
    /\ switchThreads[t] = "finally"
    /\ model_switching' = FALSE
    /\ switchThreads' = [switchThreads EXCEPT ![t] = "none"]
    /\ UNCHANGED <<current_model, pcReq, reqModel, reqAnswer>>
    /\ RouteFrame

-----------------------------------------------------------------------------
(* VAD segmenter (VADProcessor)                                            *)
(* Audio is kept at window granularity: a buffer is a sequence of pieces   *)
(* [speech, n], n samples of a window that was scored speech / non-speech  *)
(* (n < vad_window_size only where the pre-buffer cut a window).           *)

sample_rate == 16000
vad_window_size == 512

\* constructor arguments (scaled down; min_chunk_size and max_chunk_size in ms)
min_chunk_size_ms == 120
max_chunk_size_ms == 300
min_silence_duration_ms == 90
speech_pad_ms == 40

\* windows fed to the segmenter in one behaviour, and per process_audio call
MaxWindows == 11
MaxBlockWindows == 2
\* non-speech windows already heard when a behaviour starts
MaxPreWindows == 2

\* int(sample_rate * speech_pad_ms / 1000)
pre_buffer_max == (sample_rate * speech_pad_ms) \div 1000

RECURSIVE Samples(_)
Samples(pieces) == IF pieces = <<>> THEN 0 ELSE Head(pieces).n + Samples(Tail(pieces))

Window(is_speech) == [speech |-> is_speech, n |-> vad_window_size]

\* buf[-k:] for 0 < k < len(buf)
RECURSIVE LastSamples(_, _)
LastSamples(pieces, k) ==
    IF k <= 0 \/ pieces = <<>> THEN <<>>
    ELSE LET last == pieces[Len(pieces)]
             init == SubSeq(pieces, 1, Len(pieces) - 1)
         IN  IF last.n >= k
             THEN <<[last EXCEPT !.n = k]>>
             ELSE Append(LastSamples(init, k - last.n), last)

VadState == [speech_buffer |-> speech_buffer, pre_buffer |-> pre_buffer,
             silence_frames |-> silence_frames, in_speech |-> in_speech,
             segments |-> segments]

\* len(self.speech_buffer) / self.sample_rate >= seconds, with seconds given in ms
DurationAtLeast(pieces, ms) == Samples(pieces) * 1000 >= ms * sample_rate

\* variant: _flush_speech_buffer without the min_chunk_size test
_flush_speech_buffer_AlwaysEmit(st) ==
    IF Samples(st.speech_buffer) = 0 THEN st
    ELSE [st EXCEPT
            !.segments = Append(st.segments, st.speech_buffer),
            !.speech_buffer = <<>>,
            !.in_speech = FALSE,
            !.silence_frames = 0]

\* variant: _flush_speech_buffer leaving in_speech as it is (flush-and-continue)
_flush_speech_buffer_KeepInSpeech(st) ==
    IF Samples(st.speech_buffer) = 0 THEN st
    ELSE [st EXCEPT
            !.segments = IF DurationAtLeast(st.speech_buffer, min_chunk_size_ms)
                         THEN Append(st.segments, st.speech_buffer)
                         ELSE st.segments,
            !.speech_buffer = <<>>,
            !.silence_frames = 0]

\* _flush_speech_buffer(): the callback receives a copy when the utterance is long
\* enough; the state is reset either way
_flush_speech_buffer(st) ==
    IF Samples(st.speech_buffer) = 0 THEN st
    ELSE [st EXCEPT
            !.segments = IF DurationAtLeast(st.speech_buffer, min_chunk_size_ms)
                         THEN Append(st.segments, st.speech_buffer)
                         ELSE st.segments,
            !.speech_buffer = <<>>,
            !.in_speech = FALSE,
            !.silence_frames = 0]

\* variant: speech onset without the pre-roll
VadSpeechWindow_NoPreRoll(st) ==
    LET joined == IF ~st.in_speech
                  THEN [st EXCEPT !.in_speech = TRUE,
                                  !.speech_buffer = <<Window(TRUE)>>,
                                  !.pre_buffer = <<>>,
                                  !.silence_frames = 0]
                  ELSE [st EXCEPT !.speech_buffer = Append(st.speech_buffer, Window(TRUE)),
                                  !.silence_frames = 0]
    IN  IF DurationAtLeast(joined.speech_buffer, max_chunk_size_ms)
        THEN _flush_speech_buffer(joined)
        ELSE joined

\* body of the loop of process_audio for one full window
VadSpeechWindow(st) ==
    LET joined == IF ~st.in_speech
                  THEN [st EXCEPT !.in_speech = TRUE,
                                  !.speech_buffer = st.pre_buffer \o <<Window(TRUE)>>,
                                  !.pre_buffer = <<>>,
                                  !.silence_frames = 0]
                  ELSE [st EXCEPT !.speech_buffer = Append(st.speech_buffer, Window(TRUE)),
                                  !.silence_frames = 0]
    IN  IF DurationAtLeast(joined.speech_buffer, max_chunk_size_ms)
        THEN _flush_speech_buffer(joined)
        ELSE joined

\* variant: a short pause inside an utterance is not kept
VadSilenceWindow_DropPause(st) ==
    IF st.in_speech
    THEN LET frames == st.silence_frames + vad_window_size
             counted == [st EXCEPT !.silence_frames = frames]
         IN  IF frames * 1000 >= min_silence_duration_ms * sample_rate
             THEN _flush_speech_buffer(counted)
             ELSE counted
    ELSE LET grown == Append(st.pre_buffer, Window(FALSE))
         IN  [st EXCEPT !.pre_buffer = IF Samples(grown) > pre_buffer_max
                                       THEN LastSamples(grown, pre_buffer_max)
                                       ELSE grown]

\* variant: the pre-buffer grows without being cut to pre_buffer_max
VadSilenceWindow_NoTrim(st) ==
    IF st.in_speech
    THEN LET frames == st.silence_frames + vad_window_size
             counted == [st EXCEPT !.silence_frames = frames]
         IN  IF frames * 1000 >= min_silence_duration_ms * sample_rate
             THEN _flush_speech_buffer(counted)
             ELSE [counted EXCEPT
                     !.speech_buffer = Append(st.speech_buffer, Window(FALSE))]
    ELSE [st EXCEPT !.pre_buffer = Append(st.pre_buffer, Window(FALSE))]

\* a non-speech window: counted and kept inside an utterance until the silence lasts
\* min_silence_duration_ms, fed to the pre-roll otherwise
VadSilenceWindow(st) ==
    IF st.in_speech
    THEN LET frames == st.silence_frames + vad_window_size
             counted == [st EXCEPT !.silence_frames = frames]
         IN  IF frames * 1000 >= min_silence_duration_ms * sample_rate
             THEN _flush_speech_buffer(counted)
             ELSE [counted EXCEPT
                     !.speech_buffer = Append(st.speech_buffer, Window(FALSE))]
    ELSE LET grown == Append(st.pre_buffer, Window(FALSE))
         IN  [st EXCEPT !.pre_buffer = IF Samples(grown) > pre_buffer_max
                                       THEN LastSamples(grown, pre_buffer_max)
                                       ELSE grown]

VadWindow(st, is_speech) ==
    IF is_speech THEN VadSpeechWindow(st) ELSE VadSilenceWindow(st)

\* for i in range(0, len(audio), vad_window_size): ... over the full windows of a block
RECURSIVE VadBlock(_, _)
VadBlock(st, flags) ==
    IF flags = <<>> THEN st ELSE VadBlock(VadWindow(st, Head(flags)), Tail(flags))

SetVadState(st) ==
    /\ speech_buffer' = st.speech_buffer
    /\ pre_buffer' = st.pre_buffer
    /\ silence_frames' = st.silence_frames
    /\ in_speech' = st.in_speech
    /\ segments' = st.segments

\* blocks of 1..MaxBlockWindows scored windows (TRUE: speech_prob > 0.5)
Blocks == UNION { [1..n -> BOOLEAN] : n \in 1..MaxBlockWindows }

\* process_audio(audio): a trailing incomplete window of the block is skipped
process_audio ==
    \E flags \in Blocks :
        /\ Len(scn.fed) + Len(flags) <= MaxWindows
        /\ SetVadState(VadBlock(VadState, flags))
        /\ scn' = [scn EXCEPT !.fed = scn.fed \o flags]
        /\ UNCHANGED <<queueVars, dispVars, engineVars, swapVars, serverVars,
                       routeVars, captureVars>>

\* the pre-buffer after n non-speech windows in the idle state
RECURSIVE IdleAfter(_)
IdleAfter(n) ==
    IF n = 0
    THEN [speech_buffer |-> <<>>, pre_buffer |-> <<>>, silence_frames |-> 0,
          in_speech |-> FALSE, segments |-> <<>>]
    ELSE VadSilenceWindow(IdleAfter(n - 1))

\* finish(): flush what is left in the speech buffer
finish ==
    /\ SetVadState(IF Samples(speech_buffer) > 0
                   THEN _flush_speech_buffer(VadState) ELSE VadState)
    /\ UNCHANGED <<scn, queueVars, dispVars, engineVars, swapVars, serverVars,
                   routeVars, captureVars>>

\* the capture thread hands a block to the segmenter (callback=vad_processor.process_audio)
VadFeed == capture_running /\ process_audio

\* lengths, in samples, of the blocks handed to process_audio: whole windows, and
\* capture chunks that end inside a window (main() captures chunks of 0.5 s, 8000
\* samples: 15 windows and 320 samples)
BlockSamples == {512, 832, 1344}

\* process_audio(audio) for a block of len(audio) samples: range(0, len(audio),
\* vad_window_size) visits the windows, "if len(window) < vad_window_size: break"
\* leaves the loop at the incomplete one; no field of the processor keeps its samples
process_audio_block ==
    \E n \in BlockSamples : \E flags \in [1..(n \div vad_window_size) -> BOOLEAN] :
        /\ Len(scn.fed) + Len(flags) <= MaxWindows
        /\ feed.samples + n <= MaxWindows * vad_window_size
        /\ SetVadState(VadBlock(VadState, flags))
        /\ scn' = [scn EXCEPT !.fed = scn.fed \o flags]
        /\ feed' = [feed EXCEPT !.samples = feed.samples + n]
        /\ UNCHANGED <<buffer, native_samples_per_chunk, native_samples_overlap,
                       overflowResets, callback, output_queue, buffer_lock, pcC, resampled>>
        /\ UNCHANGED <<queueVars, dispVars, engineVars, swapVars, serverVars, routeVars>>

-----------------------------------------------------------------------------
(* Capture stage (AudioCapture._audio_callback)                             *)
(* Native samples are amplitudes in units of 0.001; the buffer is the valid *)
(* prefix buffer[:buffer_size].                                             *)

\* chunks extracted in one behaviour of the capture stage
MaxCaptureChunks == 5
\* native_rate * 10, scaled to the chunk lengths below
buffer_max_size == 10

\* amplitudes of the frames: silence, the gate's threshold, speech
NativeLevels == {0, 20, 50}
FrameSizes == {3, 9}
Frames == { [i \in 1..n |-> l] : n \in FrameSizes, l \in NativeLevels }

\* (chunk_duration, chunk_overlap) at the native rate, and who receives chunks
CaptureConfigs ==
    { [chunk |-> 6, overlap |-> o, callback |-> cb, output_queue |-> oq] :
        o \in {0, 3}, cb \in BOOLEAN, oq \in BOOLEAN }

native_samples_stride == native_samples_per_chunk - native_samples_overlap

\* variant: no decimation
_fast_resample_NoDecimation(chunk) == chunk

\* resample_poly(chunk, 1, 3): low-pass, then one output sample per ResampleRatio
\* native samples; the filter is taken as the sum over each group, which puts the
\* output in units of 0.001/ResampleRatio
RECURSIVE _fast_resample(_)
_fast_resample(chunk) ==
    IF Len(chunk) < ResampleRatio THEN <<>>
    ELSE <<chunk[1] + chunk[2] + chunk[3]>>
         \o _fast_resample(SubSeq(chunk, ResampleRatio + 1, Len(chunk)))

\* variant: the buffer shifted by a whole chunk, the overlap not kept
RECURSIVE ExtractChunks_ShiftByChunk(_, _)
ExtractChunks_ShiftByChunk(buf, st) ==
    IF Len(buf) < native_samples_per_chunk THEN [buffer |-> buf, st |-> st]
    ELSE ExtractChunks_ShiftByChunk(
            SubSeq(buf, native_samples_per_chunk + 1, Len(buf)),
            Deliver(st, _fast_resample(SubSeq(buf, 1, native_samples_per_chunk)),
                    callback, output_queue))

\* while self.buffer_size >= self.native_samples_per_chunk: extract, shift, deliver
RECURSIVE ExtractChunks(_, _)
ExtractChunks(buf, st) ==
    IF Len(buf) < native_samples_per_chunk THEN [buffer |-> buf, st |-> st]
    ELSE ExtractChunks(
            SubSeq(buf, native_samples_stride + 1, Len(buf)),
            Deliver(st, _fast_resample(SubSeq(buf, 1, native_samples_per_chunk)),
                    callback, output_queue))

\* variant: _audio_callback without the overflow test, the backlog kept
CallbackBody_NoReset(audio, max_size) ==
    LET done == ExtractChunks(buffer \o audio, CaptureState)
    IN  /\ buffer' = done.buffer
        /\ overflowResets' = overflowResets
        /\ SetCaptureState(done.st)

\* the body of _audio_callback for the frame audio and a buffer of max_size samples:
\* append the frame (after an overflow reset if it does not fit), then extract and
\* deliver every complete chunk
CallbackBody(audio, max_size) ==
    LET overflow == Len(buffer) + Len(audio) > max_size
        appended == (IF overflow THEN <<>> ELSE buffer) \o audio
        done     == ExtractChunks(appended, CaptureState)
    IN  /\ buffer' = done.buffer
        /\ overflowResets' = IF overflow THEN overflowResets + 1 ELSE overflowResets
        /\ SetCaptureState(done.st)

\* _audio_callback(indata, ...) called by the sound device with any frame
_audio_callback ==
    /\ capture_running
    /\ nextChunk < MaxCaptureChunks
    /\ \E audio \in Frames : CallbackBody(audio, buffer_max_size)
    /\ UNCHANGED <<native_samples_per_chunk, native_samples_overlap, callback,
                   output_queue, feed, buffer_lock, pcC, resampled, capture_running,
                   dispVars, engineVars, swapVars, serverVars, routeVars, vadVars>>

-----------------------------------------------------------------------------
(* Capture stage fed a synthetic signal of constant level                   *)
(* One model sample stands for 8000 samples: the rates are 48000 / 8000 and *)
(* 16000 / 8000 samples per second.                                         *)

\* self.sample_rate (16000), scaled
FeedTargetRate == 2
\* NATIVE_SAMPLE_RATE (48000), scaled
FeedNativeRate == FeedTargetRate * ResampleRatio
\* seconds of signal fed
FeedSeconds == 10
FeedTotal == FeedNativeRate * FeedSeconds
\* int(rate * CHUNK_DURATION_SEC) for CHUNK_DURATION_SEC = 3.5
ChunkOf(rate) == (7 * rate) \div 2
\* RMS 0.001 and RMS 0.05
QuietLevel == 1
LoudLevel == 50
\* frames that do not divide the chunk length, as blocksize=1024 does not
FeedFrameSizes == {4, 5}

\* the sound device calls _audio_callback with the next frame of the signal
FeedFrame ==
    /\ capture_running
    /\ \E n \in FeedFrameSizes :
         /\ feed.samples + n <= FeedTotal
         /\ CallbackBody([i \in 1..n |-> feed.level], FeedNativeRate * 10)
         /\ feed' = [feed EXCEPT !.samples = @ + n]
    /\ UNCHANGED <<native_samples_per_chunk, native_samples_overlap, callback,
                   output_queue, buffer_lock, pcC, resampled, capture_running,
                   dispVars, engineVars, swapVars, serverVars, routeVars, vadVars>>

-----------------------------------------------------------------------------
(* Capture stage fed a stream whose samples can be told apart               *)

\* native samples fed in one behaviour
MaxStreamSamples == 24
\* amplitude of the first sample (0.05); sample i is StreamBase + i, above the gate
StreamBase == 50
StreamSample(i) == StreamBase + i
\* frames short enough to fit the buffer behind an incomplete chunk
StreamFrameSizes == {2, 3}

\* the sound device calls _audio_callback with the next frame of the stream
StreamFrame ==
    /\ capture_running
    /\ \E n \in StreamFrameSizes :
         /\ feed.samples + n <= MaxStreamSamples
         /\ CallbackBody([i \in 1..n |-> StreamSample(feed.samples + i)], buffer_max_size)
         /\ feed' = [feed EXCEPT !.samples = @ + n]
    /\ UNCHANGED <<native_samples_per_chunk, native_samples_overlap, callback,
                   output_queue, buffer_lock, pcC, resampled, capture_running,
                   dispVars, engineVars, swapVars, serverVars, routeVars, vadVars>>

-----------------------------------------------------------------------------
(* _audio_callback step by step, with the position of buffer_lock           *)

CallbackFrame ==
    UNCHANGED <<native_samples_per_chunk, native_samples_overlap, callback,
                output_queue, feed, capture_running, dispVars, engineVars, swapVars,
                serverVars, routeVars, vadVars>>

\* with self.buffer_lock: the frame is copied into the buffer (after an overflow reset
\* if it does not fit)
CallbackAppend ==
    /\ capture_running
    /\ nextChunk < MaxCaptureChunks
    /\ pcC = "idle"
    /\ buffer_lock = "free"
    /\ buffer_lock' = "callback"
    /\ \E audio \in Frames :
         LET overflow == Len(buffer) + Len(audio) > buffer_max_size
         IN  /\ buffer' = (IF overflow THEN <<>> ELSE buffer) \o audio
             /\ overflowResets' = IF overflow THEN overflowResets + 1 ELSE overflowResets
    /\ pcC' = "loop"
    /\ UNCHANGED <<resampled, audio_queue, nextChunk, fullDrops, callbackLog>>
    /\ CallbackFrame

\* while self.buffer_size >= self.native_samples_per_chunk: the chunk is resampled
\* and the buffer shifted by the stride
CallbackExtract ==
    /\ pcC = "loop"
    /\ Len(buffer) >= native_samples_per_chunk
    /\ resampled' = _fast_resample(SubSeq(buffer, 1, native_samples_per_chunk))
    /\ buffer' = SubSeq(buffer, native_samples_stride + 1, Len(buffer))
    /\ pcC' = "deliver"
    /\ UNCHANGED <<buffer_lock, overflowResets, audio_queue, nextChunk, fullDrops,
                   callbackLog>>
    /\ CallbackFrame

\* self._deliver_chunk(resampled), the last statement of the while body, inside the
\* with block
CallbackDeliver ==
    /\ pcC = "deliver"
    /\ SetCaptureState(Deliver(CaptureState, resampled, callback, output_queue))
    /\ resampled' = <<>>
    /\ pcC' = "loop"
    /\ UNCHANGED <<buffer_lock, buffer, overflowResets>>
    /\ CallbackFrame

\* the while condition fails: the with block ends and the callback returns
CallbackReturn ==
    /\ pcC = "loop"
    /\ Len(buffer) < native_samples_per_chunk
    /\ buffer_lock' = "free"
    /\ pcC' = "idle"
    /\ UNCHANGED <<resampled, buffer, overflowResets, audio_queue, nextChunk, fullDrops,
                   callbackLog>>
    /\ CallbackFrame

\* chunk_overlap values AudioCapture.__init__ takes with chunk_duration 6: none,
\* half a chunk, a whole chunk (the constructor compares neither with the other)
AcceptedOverlaps == {0, 3, 6}

\* the while loop's next iteration; the chunk counter of a behaviour is kept finite
\* (with an overlap shorter than the chunk the counter stays below this value)
CallbackExtractNext ==
    /\ nextChunk < 2 * MaxCaptureChunks
    /\ CallbackExtract

-----------------------------------------------------------------------------
(* VAD mode of main(): AudioCapture(callback=vad_processor.process_audio)    *)
(* A capture chunk is a block of whole windows; its resampled samples are    *)
(* kept one per window.                                                      *)

\* the levels of the captured input: below the gate (silence) and above it
VadModeLevels == {QuietLevel, LoudLevel}

\* the window scores a chunk of the given level can get: silence is never scored
\* as speech
VadModeBlocks(level) ==
    IF level = QuietLevel
    THEN { flags \in Blocks : \A i \in 1..Len(flags) : ~flags[i] }
    ELSE Blocks

\* _deliver_chunk(chunk) of a capture stage whose callback is process_audio: a chunk
\* under the gate returns before the callback; feed counts the windows captured in
\* a row at the same level
DeliverToVad ==
    /\ capture_running
    /\ \E level \in VadModeLevels :
       \E flags \in VadModeBlocks(level) :
          LET chunk == [i \in 1..Len(flags) |-> level * ResampleRatio]
              run   == IF feed.level = level THEN feed.samples ELSE 0
          IN  /\ run + Len(flags) <= MaxWindows
              /\ feed' = [level |-> level, samples |-> run + Len(flags)]
              /\ IF RmsBelowThreshold(chunk)
                 THEN UNCHANGED vadVars
                 ELSE /\ Len(scn.fed) + Len(flags) <= MaxWindows
                      /\ SetVadState(VadBlock(VadState, flags))
                      /\ scn' = [scn EXCEPT !.fed = scn.fed \o flags]
    /\ UNCHANGED <<buffer, native_samples_per_chunk, native_samples_overlap,
                   overflowResets, callback, output_queue, buffer_lock, pcC, resampled>>
    /\ UNCHANGED <<queueVars, dispVars, engineVars, swapVars, serverVars, routeVars>>


-----------------------------------------------------------------------------
(* Initial states                                                          *)

InitQueue ==
    /\ audio_queue = <<>>
    /\ nextChunk = 0
    /\ fullDrops = {}
    /\ callbackLog = <<>>
    /\ capture_running = TRUE

InitDispatch ==
    /\ shutdown_event = FALSE
    /\ pcD = "top"
    /\ audio_chunk = 0
    /\ translated = <<>>
    /\ last_output_text = <<>>
    /\ errorsLogged = 0
    /\ nilSkips = 0
    /\ cycles = <<>>
    /\ transcribed = <<>>
    /\ newest_chunk = NoChunk

InitEngine ==
    /\ whisper_engine \in StartupEngines
    /\ engine_lock = "free"

InitSwap ==
    /\ pcS = "idle"
    /\ swapArgs = NoRequest
    /\ old_engine = NoEngine
    /\ new_engine = NoEngine
    /\ swapReturn = None
    /\ creates = <<>>
    /\ swapCalls = 0

InitServer ==
    /\ paused = FALSE
    /\ subtitle_history = <<>>
    /\ subtitles_sent = 0
    /\ current_speaker = 0
    /\ last_subtitle_time = None
    /\ latencies = <<>>
    /\ clients_connected = 0
    /\ emitted = [event |-> "none", payload |-> <<>>]
    /\ gap_seen = [known |-> FALSE, gap |-> 0, speaker_before |-> 0]
    /\ pcSend = "idle"

InitRoute ==
    /\ current_model = "large-v3:float16:5"
    /\ model_switching = FALSE
    /\ pcReq = [t \in RequestThreads |-> "idle"]
    /\ reqModel = [t \in RequestThreads |-> ""]
    /\ reqAnswer = [t \in RequestThreads |-> "None"]
    /\ switchThreads = [t \in RequestThreads |-> "none"]

\* fixed mode of main(): AudioCapture(..., output_queue=audio_queue), no overlap
\* no callback under way
InitCallback ==
    /\ buffer_lock = "free"
    /\ pcC = "idle"
    /\ resampled = <<>>

InitCapture ==
    /\ buffer = <<>>
    /\ native_samples_per_chunk = 6
    /\ native_samples_overlap = 0
    /\ overflowResets = 0
    /\ callback = FALSE
    /\ output_queue = TRUE
    /\ feed = [level |-> 0, samples |-> 0]
    /\ InitCallback

\* scn records the pre-roll at the start and the window scores fed since
InitVAD ==
    /\ speech_buffer = <<>>
    /\ silence_frames = 0
    /\ in_speech = FALSE
    /\ pre_buffer = <<>>
    /\ segments = <<>>
    /\ scn = [pre |-> 0, fed |-> <<>>]

\* the segmenter idle, having heard up to MaxPreWindows non-speech windows
InitVADIdle ==
    \E n \in 0..MaxPreWindows :
        /\ speech_buffer = <<>>
        /\ silence_frames = 0
        /\ in_speech = FALSE
        /\ pre_buffer = IdleAfter(n).pre_buffer
        /\ segments = <<>>
        /\ scn = [pre |-> Samples(IdleAfter(n).pre_buffer), fed |-> <<>>]

InitAll ==
    /\ InitQueue /\ InitDispatch /\ InitEngine /\ InitSwap
    /\ InitServer /\ InitRoute /\ InitCapture /\ InitVAD

-----------------------------------------------------------------------------
(* SpecQueue: capture thread and dispatch loop around the bounded queue     *)

NextQueue ==
    \/ Produce
    \/ DispatchLoopTest \/ DispatchGet \/ DispatchGetTimeout \/ DispatchAcquire
    \/ DispatchTranscribeCall \/ DispatchTranscribeRaise \/ DispatchTranscribeReturn
    \/ DispatchBackoff
    \/ signal_handler \/ MainCleanup

SpecQueue == InitAll /\ [][NextQueue]_vars

-----------------------------------------------------------------------------
(* SpecSwap: dispatch loop and hot-swap thread sharing the engine            *)

\* the behaviours start some chunks into the run, with the queue drained
InitSwapSpec ==
    /\ audio_queue = <<>>
    /\ nextChunk = MaxChunks - SwapChunks
    /\ fullDrops = {}
    /\ callbackLog = <<>>
    /\ capture_running = TRUE
    /\ InitDispatch /\ InitEngine /\ InitSwap
    /\ InitServer /\ InitRoute /\ InitCapture /\ InitVAD

NextSwap ==
    \/ Produce
    \/ DispatchLoopTest \/ DispatchGet \/ DispatchGetTimeout \/ DispatchAcquire
    \/ DispatchEngineNone \/ DispatchNoneContinue \/ DispatchTranscribeCall
    \/ DispatchTranscribeRaise \/ DispatchTranscribeReturn \/ DispatchBackoff
    \/ signal_handler
    \/ SwitchModelCall \/ SwapLockOld \/ SwapTakeOld \/ SwapUnload
    \/ SwapCreateBegin \/ SwapCreateReturn \/ SwapCreateRaise
    \/ SwapLockNew \/ SwapInstall
    \/ SwapRecoverBegin \/ SwapRecoverReturn \/ SwapRecoverRaise
    \/ SwapLockRecovery \/ SwapInstallRecovery

SpecSwap == InitSwapSpec /\ [][NextSwap]_vars

-----------------------------------------------------------------------------
(* SpecRoute: concurrent POST /models/switch requests                        *)

NextRoute ==
    \/ \E t \in RequestThreads :
          \/ \E model_id \in RequestedIds : RouteSwitchModel(t, model_id)
          \/ RouteCheckSwitching(t)
          \/ RouteCheckCurrent(t)
          \/ RouteStartSwitch(t)
          \/ DoSwitchCall(t)
          \/ DoSwitchFinally(t)

SpecRoute == InitAll /\ [][NextRoute]_vars

-----------------------------------------------------------------------------
(* SpecVAD: the segmenter fed blocks of scored windows                       *)

InitVADSpec ==
    /\ InitQueue /\ InitDispatch /\ InitEngine /\ InitSwap
    /\ InitServer /\ InitRoute /\ InitCapture /\ InitVADIdle

NextVAD == process_audio

SpecVAD == InitVADSpec /\ [][NextVAD]_vars

-----------------------------------------------------------------------------
(* SpecCapture: the capture stage fed frames by the sound device            *)

InitCaptureSpec ==
    /\ InitQueue /\ InitDispatch /\ InitEngine /\ InitSwap
    /\ InitServer /\ InitRoute /\ InitVAD
    /\ buffer = <<>>
    /\ overflowResets = 0
    /\ feed = [level |-> 0, samples |-> 0]
    /\ InitCallback
    /\ \E cfg \in CaptureConfigs :
          /\ native_samples_per_chunk = cfg.chunk
          /\ native_samples_overlap = cfg.overlap
          /\ callback = cfg.callback
          /\ output_queue = cfg.output_queue

NextCapture == _audio_callback

SpecCapture == InitCaptureSpec /\ [][NextCapture]_vars

-----------------------------------------------------------------------------
(* SpecVADShutdown: VAD mode of main() up to its teardown                    *)

\* main() never calls vad_processor.finish(); its teardown is MainCleanup
NextVADShutdown ==
    \/ VadFeed
    \/ signal_handler
    \/ MainCleanup

SpecVADShutdown == InitVADSpec /\ [][NextVADShutdown]_vars

-----------------------------------------------------------------------------
(* SpecDispatch: the dispatch loop with the pause routes of the web server    *)

InitDispatchSpec ==
    /\ audio_queue = <<>>
    /\ nextChunk = MaxChunks - DispatchChunks
    /\ fullDrops = {}
    /\ callbackLog = <<>>
    /\ capture_running = TRUE
    /\ InitDispatch /\ InitEngine /\ InitSwap
    /\ InitServer /\ InitRoute /\ InitCapture /\ InitVAD

NextDispatch ==
    \/ Produce
    \/ DispatchLoopTest \/ DispatchGet \/ DispatchGetTimeout \/ DispatchAcquire
    \/ DispatchTranscribeCall \/ DispatchTranscribeRaise \/ ObservedTranscribeReturn
    \/ DispatchBackoff
    \/ pause \/ resume \/ toggle_pause

SpecDispatch == InitDispatchSpec /\ [][NextDispatch]_vars

-----------------------------------------------------------------------------
(* SpecServer: the web server called by the dispatch loop and by its clients  *)

NextServer ==
    \/ SendSubtitle
    \/ pause \/ resume \/ toggle_pause
    \/ on_connect \/ on_disconnect

\* the engine plays no part here: the one main() asks for
InitServerSpec ==
    /\ InitQueue /\ InitDispatch /\ InitSwap
    /\ whisper_engine = Engine("faster_whisper", "large-v3", 5, "float16", TRUE)
    /\ engine_lock = "free"
    /\ InitServer /\ InitRoute /\ InitCapture /\ InitVAD

SpecServer == InitServerSpec /\ [][NextServer]_vars

-----------------------------------------------------------------------------
(* SpecFilter: decoder outputs through transcribe()'s filter and send_subtitle *)

NextFilter ==
    \/ Produce
    \/ DispatchLoopTest \/ DispatchGet \/ DispatchGetTimeout \/ DispatchAcquire
    \/ DispatchTranscribeCall \/ DispatchTranscribeRaise \/ FilterTranscribeReturn
    \/ DispatchBackoff

SpecFilter == InitDispatchSpec /\ [][NextFilter]_vars

-----------------------------------------------------------------------------
(* SpecFeed: ten seconds of a quiet or a loud signal through the capture     *)
(* stage configured as main() configures it (3.5 s chunks, no overlap)       *)

InitFeedSpec ==
    /\ InitQueue /\ InitDispatch /\ InitEngine /\ InitSwap
    /\ InitServer /\ InitRoute /\ InitVAD
    /\ buffer = <<>>
    /\ overflowResets = 0
    /\ native_samples_per_chunk = ChunkOf(FeedNativeRate)
    /\ native_samples_overlap = 0
    /\ \E level \in {QuietLevel, LoudLevel} : feed = [level |-> level, samples |-> 0]
    /\ InitCallback
    /\ \E cb \in BOOLEAN, oq \in BOOLEAN :
          /\ cb \/ oq
          /\ callback = cb
          /\ output_queue = oq

NextFeed == FeedFrame

SpecFeed == InitFeedSpec /\ [][NextFeed]_vars

-----------------------------------------------------------------------------
(* SpecProducer: the capture thread filling the queue while the dispatch     *)
(* loop and the hot-swap thread hold the engine                              *)

\* engine creation succeeds in these behaviours
NextProducer ==
    \/ Produce
    \/ DispatchLoopTest \/ DispatchGet \/ DispatchGetTimeout \/ DispatchAcquire
    \/ DispatchEngineNone \/ DispatchNoneContinue \/ DispatchTranscribeCall
    \/ DispatchTranscribeRaise \/ DispatchTranscribeReturn \/ DispatchBackoff
    \/ SwitchModelCall \/ SwapLockOld \/ SwapTakeOld \/ SwapUnload
    \/ SwapCreateBegin \/ SwapCreateReturn
    \/ SwapLockNew \/ SwapInstall

\* the behaviours start with the queue full: the capture thread has delivered
\* MAX_QUEUE_SIZE chunks of speech, the dispatch loop has not run yet, and delivery
\* has been paused
InitProducerSpec ==
    /\ audio_queue = [i \in 1..MAX_QUEUE_SIZE |-> [id |-> i, samples |-> <<150, 150>>]]
    /\ nextChunk = MAX_QUEUE_SIZE
    /\ fullDrops = {}
    /\ callbackLog = <<>>
    /\ capture_running = TRUE
    /\ InitDispatch /\ InitSwap
    /\ whisper_engine = Engine("faster_whisper", "large-v3", 5, "float16", TRUE)
    /\ engine_lock = "free"
    /\ paused = TRUE
    /\ subtitle_history = <<>>
    /\ subtitles_sent = 0
    /\ current_speaker = 0
    /\ last_subtitle_time = None
    /\ latencies = <<>>
    /\ clients_connected = 0
    /\ emitted = [event |-> "none", payload |-> <<>>]
    /\ gap_seen = [known |-> FALSE, gap |-> 0, speaker_before |-> 0]
    /\ pcSend = "idle"
    /\ InitRoute /\ InitCapture /\ InitVAD

SpecProducer == InitProducerSpec /\ [][NextProducer]_vars

-----------------------------------------------------------------------------
(* SpecShutdown: SpecSwap with its threads scheduled                         *)

\* a step of the dispatch thread
DispatchStep ==
    \/ DispatchLoopTest \/ DispatchGet \/ DispatchGetTimeout \/ DispatchAcquire
    \/ DispatchEngineNone \/ DispatchNoneContinue \/ DispatchTranscribeCall
    \/ DispatchTranscribeRaise \/ DispatchTranscribeReturn \/ DispatchBackoff

\* the hot-swap thread leaving a with engine_lock block
SwapCritical == SwapTakeOld \/ SwapInstall \/ SwapInstallRecovery

\* the dispatch thread keeps being scheduled (get() times out, transcribe() and the
\* sleeps return) and the hot-swap thread leaves its critical sections
SpecShutdown == SpecSwap /\ WF_vars(DispatchStep) /\ WF_vars(SwapCritical)

-----------------------------------------------------------------------------
(* SpecJoin: clients joining while the dispatch thread is inside send_subtitle *)

NextJoin == SendSubtitleAppend \/ SendSubtitleTrim \/ on_connect \/ on_disconnect

SpecJoin == InitServerSpec /\ [][NextJoin]_vars

-----------------------------------------------------------------------------
(* SpecCaptureLock: the capture callback step by step                        *)

NextCaptureLock == CallbackAppend \/ CallbackExtract \/ CallbackDeliver \/ CallbackReturn

SpecCaptureLock == InitCaptureSpec /\ [][NextCaptureLock]_vars

-----------------------------------------------------------------------------
(* SpecHold: the dispatch cycle step by step beside the hot-swap thread      *)

\* engine creation succeeds in these behaviours
NextHold ==
    \/ Produce
    \/ DispatchLoopTest \/ DispatchGet \/ DispatchGetTimeout \/ DispatchAcquire
    \/ DispatchEngineNone \/ DispatchNoneContinue \/ DispatchTranscribeCall
    \/ DispatchTranscribeRaise \/ DispatchTranscribeDone \/ DispatchDeliver
    \/ DispatchBackoff
    \/ SwitchModelCall \/ SwapLockOld \/ SwapTakeOld \/ SwapUnload
    \/ SwapCreateBegin \/ SwapCreateReturn
    \/ SwapLockNew \/ SwapInstall

SpecHold == InitSwapSpec /\ [][NextHold]_vars

-----------------------------------------------------------------------------
(* SpecVADFinish: the segmenter fed blocks of windows by a caller that also   *)
(* calls finish()                                                             *)

NextVADFinish == process_audio \/ finish

\* the segmenter as constructed; the engine plays no part here: the one main() asks for
InitVADFinishSpec ==
    /\ InitQueue /\ InitDispatch /\ InitSwap
    /\ whisper_engine = Engine("faster_whisper", "large-v3", 5, "float16", TRUE)
    /\ engine_lock = "free"
    /\ InitServer /\ InitRoute /\ InitCapture /\ InitVAD

SpecVADFinish == InitVADFinishSpec /\ [][NextVADFinish]_vars

-----------------------------------------------------------------------------
(* SpecStream: a stream of distinct samples through the capture stage        *)

NextStream == StreamFrame

SpecStream == InitCaptureSpec /\ [][NextStream]_vars

-----------------------------------------------------------------------------
(* SpecPhrase: texts with repeated phrases through transcribe() and send_subtitle *)

NextPhrase ==
    \/ Produce
    \/ DispatchLoopTest \/ DispatchGet \/ DispatchGetTimeout \/ DispatchAcquire
    \/ DispatchTranscribeCall \/ DispatchTranscribeRaise \/ PhraseTranscribeReturn
    \/ DispatchBackoff

SpecPhrase == InitDispatchSpec /\ [][NextPhrase]_vars

-----------------------------------------------------------------------------
(* SpecVADMode: the capture stage feeding the segmenter, as main() wires them *)
(* in VAD mode                                                                *)

\* the capture stage has a callback and no queue; the segmenter as constructed
InitVADModeSpec ==
    /\ InitQueue /\ InitDispatch /\ InitSwap
    /\ whisper_engine = Engine("faster_whisper", "large-v3", 5, "float16", TRUE)
    /\ engine_lock = "free"
    /\ InitServer /\ InitRoute /\ InitVAD
    /\ buffer = <<>>
    /\ native_samples_per_chunk = 6
    /\ native_samples_overlap = 0
    /\ overflowResets = 0
    /\ callback = TRUE
    /\ output_queue = FALSE
    /\ feed = [level |-> LoudLevel, samples |-> 0]
    /\ InitCallback

NextVADMode == DeliverToVad

SpecVADMode == InitVADModeSpec /\ [][NextVADMode]_vars

-----------------------------------------------------------------------------
(* SpecBacklog: the capture thread and the dispatch loop of subtitle-product *)

NextBacklog ==
    \/ BacklogProduce
    \/ BacklogLoopTest \/ BacklogDrain \/ BacklogPutBack
    \/ BacklogGet \/ DispatchGetTimeout
    \/ BacklogTranscribeReturn \/ BacklogTranscribeRaise \/ DispatchBackoff

InitBacklogSpec ==
    /\ InitQueue /\ InitDispatch /\ InitSwap
    /\ whisper_engine = Engine("faster_whisper", "large-v3", 5, "float16", TRUE)
    /\ engine_lock = "free"
    /\ InitServer /\ InitRoute /\ InitCapture /\ InitVAD

SpecBacklog == InitBacklogSpec /\ [][NextBacklog]_vars

-----------------------------------------------------------------------------
(* SpecVADBlocks: the segmenter handed blocks of samples of any length       *)

NextVADBlocks == process_audio_block

SpecVADBlocks == InitVADFinishSpec /\ [][NextVADBlocks]_vars

-----------------------------------------------------------------------------
(* SpecCaptureAccepted: the capture callback, step by step, for the chunk     *)
(* overlaps the constructor takes                                            *)

InitCaptureAcceptedSpec ==
    /\ InitQueue /\ InitDispatch /\ InitSwap
    /\ whisper_engine = Engine("faster_whisper", "large-v3", 5, "float16", TRUE)
    /\ engine_lock = "free"
    /\ InitServer /\ InitRoute /\ InitVAD
    /\ buffer = <<>>
    /\ overflowResets = 0
    /\ feed = [level |-> 0, samples |-> 0]
    /\ InitCallback
    /\ native_samples_per_chunk = 6
    /\ native_samples_overlap \in AcceptedOverlaps
    /\ callback = FALSE
    /\ output_queue = TRUE

NextCaptureAccepted ==
    CallbackAppend \/ CallbackExtractNext \/ CallbackDeliver \/ CallbackReturn

SpecCaptureAccepted == InitCaptureAcceptedSpec /\ [][NextCaptureAccepted]_vars

-----------------------------------------------------------------------------
(* Claims                                                                  *)

QueueIds == { audio_queue[i].id : i \in 1..Len(audio_queue) }

\* C2: after chunks arrive faster than they are consumed, the queue holds the most
\* recently produced chunk: no chunk was refused that is newer than the newest item
\* in the queue
C2_QueueHoldsNewest ==
    \A d \in fullDrops :
        audio_queue # <<>> /\ audio_queue[Len(audio_queue)].id > d

\* C3: the work queue never holds more than MAX_QUEUE_SIZE items
C3_QueueBounded == Len(audio_queue) <= MAX_QUEUE_SIZE

C3_Witness == Len(audio_queue) = MAX_QUEUE_SIZE /\ fullDrops # {}

\* C4: transcribe() is only ever called on a constructed and loaded engine; a cycle
\* that finds whisper_engine None calls nothing, logs no error, and goes back to
\* the top of the loop
C4_TranslateOnLoadedEngine ==
    /\ [](pcD = "translating" => (whisper_engine # NoEngine /\ whisper_engine.loaded))
    /\ [][(pcD = "locked" /\ whisper_engine = NoEngine) =>
            /\ pcD' \in {"locked", "nil_sleep"}
            /\ translated' = translated
            /\ errorsLogged' = errorsLogged]_vars
    /\ [][pcD = "nil_sleep" =>
            /\ pcD' \in {"nil_sleep", "top"}
            /\ translated' = translated
            /\ errorsLogged' = errorsLogged]_vars

C4_Witness ==
    /\ nilSkips > 0
    /\ pcD = "translating"
    /\ pcS = "take_old"

LiveEngines ==
    Cardinality({ i \in 1..3 : <<whisper_engine, old_engine, new_engine>>[i] # NoEngine })

\* C5: the previous engine is released before the construction of the replacement
\* begins, and at most one engine is held at any time
C5_OldReleasedBeforeNew ==
    /\ LiveEngines <= 1
    /\ pcS \in {"loading", "install", "install_locked", "recover_loading",
                "recover_install", "recover_install_locked"}
         => (old_engine = NoEngine /\ whisper_engine = NoEngine)

C5_Witness ==
    /\ pcS = "install_locked"
    /\ swapCalls = 1
    /\ new_engine.loaded

\* C6: a failed construction is followed by exactly one recovery construction
\* (medium, int8, beam 3); when that fails too, the engine stays None, switch_model
\* returns False, and the dispatch loop is still running
C6_OneFallbackThenNone ==
    /\ [](/\ Len(creates) <= 2
          /\ Len(creates) >= 1 => creates[1] = swapArgs
          /\ Len(creates) = 2 => creates[2] = RecoveryRequest
          /\ swapReturn = "True" => Len(creates) = 1
          /\ swapReturn = "False" => Len(creates) = 2
          /\ (pcD = "stopped" => shutdown_event))
    /\ [][pcS = "loading" /\ new_engine' = NoEngine => pcS' = "recover"]_vars
    /\ [][pcS = "recover_loading" /\ new_engine' = NoEngine =>
            /\ pcS' = "idle"
            /\ swapReturn' = "False"
            /\ whisper_engine' = NoEngine]_vars

C6_Witness ==
    /\ pcS = "idle"
    /\ swapReturn = "False"
    /\ whisper_engine = NoEngine
    /\ nilSkips > 0
    /\ pcD = "get"

SwitchThreadsRunning == { t \in RequestThreads : switchThreads[t] # "none" }

\* C7: at most one switch operation is running at any time
C7_AtMostOneSwitch == Cardinality(SwitchThreadsRunning) <= 1

\* C8: when transcribe() raises, nothing is delivered, the engine lock is free
\* again, the loop backs off and returns to its top; it only stops on shutdown
C8_InferenceFailureSurvived ==
    /\ [][pcD = "translating" /\ errorsLogged' # errorsLogged =>
            /\ pcD' = "backoff"
            /\ engine_lock' = "free"
            /\ UNCHANGED serverVars
            /\ last_output_text' = last_output_text]_vars
    /\ [][pcD = "backoff" => pcD' \in {"backoff", "top"}]_vars
    /\ [](pcD = "backoff" => engine_lock # "dispatch")
    /\ [](pcD = "stopped" => shutdown_event)

C8_Witness ==
    /\ errorsLogged = 1
    /\ Len(translated) = 2
    /\ subtitles_sent = 1
    /\ pcD = "top"

-----------------------------------------------------------------------------
(* VAD segmentation scenario: from idle, D speech windows then S non-speech *)

RECURSIVE SpeechRun(_)
SpeechRun(flags) ==
    IF flags = <<>> \/ ~Head(flags) THEN 0 ELSE 1 + SpeechRun(Tail(flags))

SilenceRun == Len(scn.fed) - SpeechRun(scn.fed)

\* the windows fed so far are a run of speech followed only by non-speech
SpeechThenSilence ==
    /\ SpeechRun(scn.fed) >= 1
    /\ \A i \in (SpeechRun(scn.fed) + 1)..Len(scn.fed) : ~scn.fed[i]

\* non-speech windows needed for silence_duration_ms >= min_silence_duration_ms
SilenceWindows ==
    (min_silence_duration_ms * sample_rate + vad_window_size * 1000 - 1)
        \div (vad_window_size * 1000)

SpeechSamples == SpeechRun(scn.fed) * vad_window_size

\* what the speech buffer holds when the silence timeout fires
BufferedSamples == scn.pre + SpeechSamples + (SilenceWindows - 1) * vad_window_size

AtLeastMs(samples, ms) == samples * 1000 >= ms * sample_rate

Abs(x) == IF x < 0 THEN -x ELSE x

\* C9 as stated: speech of duration D >= min_chunk_size followed by at least
\* min_silence_duration of non-speech emits exactly one utterance whose duration
\* is D within one window.
C9_OneUtteranceOfDurationD ==
    (/\ SpeechThenSilence
     /\ SilenceRun >= SilenceWindows
     /\ AtLeastMs(SpeechSamples, min_chunk_size_ms))
    => /\ Len(segments) = 1
       /\ Abs(Samples(segments[1]) - SpeechSamples) <= vad_window_size

\* C9 amended: when D >= min_chunk_size and pre-roll + D stays below
\* max_chunk_size, exactly one utterance is emitted, and it holds the pre-roll,
\* the D of speech and the non-speech windows heard before the silence timeout.
C9_OneUtteranceWithPadding ==
    (/\ SpeechThenSilence
     /\ SilenceRun >= SilenceWindows
     /\ AtLeastMs(SpeechSamples, min_chunk_size_ms)
     /\ ~AtLeastMs(scn.pre + SpeechSamples, max_chunk_size_ms))
    => /\ Len(segments) = 1
       /\ Samples(segments[1]) = BufferedSamples
       /\ ~in_speech /\ speech_buffer = <<>>

C9_Witness ==
    /\ SpeechThenSilence
    /\ SilenceRun >= SilenceWindows
    /\ AtLeastMs(SpeechSamples, min_chunk_size_ms)
    /\ ~AtLeastMs(scn.pre + SpeechSamples, max_chunk_size_ms)
    /\ scn.pre > 0
    /\ Len(segments) = 1

\* C10 as stated: speech of duration D < min_chunk_size followed by silence of
\* at least min_silence_duration emits nothing.
C10_ShortSpeechDiscarded ==
    (/\ SpeechThenSilence
     /\ SilenceRun >= SilenceWindows
     /\ ~AtLeastMs(SpeechSamples, min_chunk_size_ms))
    => segments = <<>>

\* C10 amended: nothing is emitted when the buffered utterance (pre-roll, D of
\* speech and the non-speech windows heard before the silence timeout) is
\* shorter than min_chunk_size; the buffer is discarded and the state is idle.
C10_ShortBufferDiscarded ==
    (/\ SpeechThenSilence
     /\ SilenceRun >= SilenceWindows
     /\ ~AtLeastMs(BufferedSamples, min_chunk_size_ms))
    => /\ segments = <<>>
       /\ ~in_speech /\ speech_buffer = <<>>

C10_Witness ==
    /\ SpeechThenSilence
    /\ SilenceRun >= SilenceWindows
    /\ ~AtLeastMs(BufferedSamples, min_chunk_size_ms)
    /\ segments = <<>>
    /\ ~in_speech

-----------------------------------------------------------------------------
(* Capture silence gate                                                     *)

Delivered == { audio_queue[i] : i \in 1..Len(audio_queue) }
                \cup { callbackLog[i] : i \in 1..Len(callbackLog) }

\* C1: a chunk whose RMS on the resampled samples is below 0.02 never reaches
\* the callback or the output queue: nothing either of them received is that quiet.
C1_SilentChunksDropped ==
    \A item \in Delivered : ~RmsBelowThreshold(item.samples)

\* three chunks were extracted, the gate dropped two, the third reached both
C1_Witness ==
    /\ callback /\ output_queue
    /\ nextChunk >= 3
    /\ Len(callbackLog) = 1
    /\ Len(audio_queue) = 1
    /\ fullDrops = {}

-----------------------------------------------------------------------------
(* Shutdown with a pending utterance                                        *)

TornDown == shutdown_event /\ ~capture_running

\* C11: once main() has torn the pipeline down, no utterance is left pending in
\* the segmenter: what was buffered at shutdown went through finish().
C11_PendingFlushedAtShutdown ==
    TornDown => (speech_buffer = <<>> /\ ~in_speech)

-----------------------------------------------------------------------------
(* Duplicate suppression                                                    *)

\* the text is long enough for the loop and is let through by the server's filter
PassesFilters(text) == Len(Strip(text)) >= 2 /\ ~_is_hallucination(text)

\* the last two cycles in which transcribe() returned gave the same text
TwoSameCycles ==
    /\ Len(cycles) = 2
    /\ cycles[1].text = cycles[2].text
    /\ PassesFilters(cycles[2].text)

SentInCycles == Cardinality({ i \in 1..Len(cycles) : cycles[i].sent })

\* C12 as stated: two consecutive cycles with the same text that passes the
\* filters deliver exactly one subtitle.
C12_ExactlyOneForTwo == TwoSameCycles => SentInCycles = 1

\* C12 amended: the second of the two cycles delivers nothing, and the first
\* delivers the subtitle exactly when its text differs from the output remembered
\* before it and delivery is not paused; so at most one subtitle is delivered.
C12_SecondSuppressed ==
    TwoSameCycles =>
        /\ ~cycles[2].sent
        /\ cycles[1].sent <=> (~cycles[1].paused /\ cycles[1].before # cycles[1].text)

C12_Witness ==
    /\ TwoSameCycles
    /\ cycles[1].sent
    /\ ~cycles[2].paused
    /\ subtitles_sent = 1

-----------------------------------------------------------------------------
(* Speaker rotation                                                         *)

PaletteSize == Len(speaker_colors)

\* C13 as stated: for two consecutive deliveries a gap below 2.0 s keeps the
\* speaker index and a gap of 2.0 s or more advances it by one modulo 4.
C13_RotationAtTwoSeconds ==
    gap_seen.known =>
        /\ gap_seen.gap < SpeakerGapTenths => current_speaker = gap_seen.speaker_before
        /\ gap_seen.gap >= SpeakerGapTenths =>
              current_speaker = (gap_seen.speaker_before + 1) % PaletteSize

\* C13 amended: a gap of at most 2.0 s (exactly 2.0 s included) keeps the speaker
\* index, and a gap above 2.0 s advances it by exactly one modulo 4.
C13_RotationAboveTwoSeconds ==
    /\ PaletteSize = 4
    /\ current_speaker \in 0..(PaletteSize - 1)
    /\ gap_seen.known =>
        /\ gap_seen.gap <= SpeakerGapTenths => current_speaker = gap_seen.speaker_before
        /\ gap_seen.gap > SpeakerGapTenths =>
              current_speaker = (gap_seen.speaker_before + 1) % PaletteSize
    /\ ~gap_seen.known => current_speaker = 0

\* the index wrapped from 3 to 0 after a long gap
C13_Witness ==
    /\ gap_seen.known
    /\ gap_seen.gap > SpeakerGapTenths
    /\ gap_seen.speaker_before = PaletteSize - 1
    /\ current_speaker = 0

-----------------------------------------------------------------------------
(* Repetition filter                                                        *)

CyclesOf(raw) == { i \in 1..Len(cycles) : cycles[i].raw = raw }

\* C14: "the cat sat, the cat sat" is rejected (by the engine's filter, and the
\* server's filter would reject it as well) and "the cat sat on the mat" passes
\* both filters: it is delivered unless it repeats the previous output.
C14_RepetitionFilter ==
    /\ is_hallucination(T_cat_twice) /\ _is_hallucination(T_cat_twice)
    /\ ~is_hallucination(T_cat_on_mat) /\ ~_is_hallucination(T_cat_on_mat)
    /\ \A i \in CyclesOf(T_cat_twice) : cycles[i].text = <<>> /\ ~cycles[i].sent
    /\ \A i \in CyclesOf(T_cat_on_mat) :
          /\ cycles[i].text = T_cat_on_mat
          /\ cycles[i].sent <=> cycles[i].before # T_cat_on_mat
    /\ \A i \in 1..Len(subtitle_history) : subtitle_history[i].text # T_cat_twice

\* a cycle rejected the repeated phrase, the next delivered the sentence
C14_Witness ==
    /\ Len(cycles) = 2
    /\ cycles[1].raw = T_cat_twice /\ ~cycles[1].sent
    /\ cycles[2].raw = T_cat_on_mat /\ cycles[2].sent
    /\ subtitle_history[Len(subtitle_history)].text = T_cat_on_mat

-----------------------------------------------------------------------------
(* Ten seconds of signal through the capture stage                          *)

\* C15: of ten seconds of frames at RMS 0.001 no chunk is delivered; of ten seconds
\* at RMS 0.05 at least one chunk is delivered; every delivered chunk has
\* 3.5 s x the target rate samples.
C15_TenSecondsFed ==
    /\ feed.level = QuietLevel => Delivered = {}
    /\ (feed.level = LoudLevel /\ feed.samples = FeedTotal) => Delivered # {}
    /\ \A item \in Delivered : Len(item.samples) = ChunkOf(FeedTargetRate)

\* the loud signal was fed to its end and its two chunks were delivered
C15_Witness ==
    /\ feed.level = LoudLevel
    /\ feed.samples = FeedTotal
    /\ nextChunk = 2
    /\ Cardinality(Delivered) = 2

\* the quiet signal was fed to its end: two chunks extracted, none delivered
C15_QuietWitness ==
    /\ feed.level = QuietLevel
    /\ feed.samples = FeedTotal
    /\ nextChunk = 2
    /\ Delivered = {}

-----------------------------------------------------------------------------
(* The producer and the work queue                                          *)

\* C16: the capture thread can always hand over its next chunk, whatever the
\* dispatch loop and the hot-swap thread are doing and however full the queue is;
\* handing a chunk to a full queue leaves the queue as it is and discards the chunk
\* (a chunk the silence gate drops is not offered to the queue).
C16_ProducerNeverWaits ==
    /\ [](capture_running /\ nextChunk < MaxChunks =>
            \A chunk \in PipelineChunks : ENABLED ProduceChunk(chunk))
    /\ [][(nextChunk' = nextChunk + 1 /\ Len(audio_queue) = MAX_QUEUE_SIZE) =>
            /\ audio_queue' = audio_queue
            /\ fullDrops' \in {fullDrops, fullDrops \cup {nextChunk'}}
            /\ UNCHANGED <<dispVars, engineVars, swapVars>>]_vars

\* a chunk was discarded at the full queue while the hot-swap thread holds the engine
C16_Witness ==
    /\ engine_lock = "swap"
    /\ fullDrops # {}
    /\ Len(audio_queue) = MAX_QUEUE_SIZE

-----------------------------------------------------------------------------
(* Shutdown of the dispatch loop                                            *)

\* position of the dispatch thread within one pass of its loop
LoopRank(pc) ==
    CASE pc = "get"         -> 1
      [] pc = "acquire"     -> 2
      [] pc = "locked"      -> 3
      [] pc = "nil_sleep"   -> 4
      [] pc = "translating" -> 4
      [] pc = "backoff"     -> 5
      [] pc = "top"         -> 6
      [] pc = "stopped"     -> 7

-----------------------------------------------------------------------------
(* Pause and resume                                                         *)

\* C18: while delivery is paused the capture thread can hand over chunks and
\* transcribe() is called and returns, but no step broadcasts or changes the
\* history, the subtitle counter, the latency samples, the speaker index or the
\* last-delivery time; a cycle that ran paused delivered nothing, and a cycle that
\* ran after resume delivered its text when it passed the filters and was new.
C18_PausedDeliversNothing ==
    /\ [][paused => UNCHANGED <<subtitle_history, subtitles_sent, latencies,
                                current_speaker, last_subtitle_time, emitted>>]_vars
    /\ [](paused /\ capture_running /\ nextChunk < MaxChunks => ENABLED Produce)
    /\ [](paused /\ pcD = "locked" => ENABLED DispatchTranscribeCall)
    /\ [](paused /\ pcD = "translating" /\ AcceptsTargetLanguage(whisper_engine)
            => ENABLED ObservedTranscribeReturn)
    /\ [](\A i \in 1..Len(cycles) :
            /\ cycles[i].paused => ~cycles[i].sent
            /\ (~cycles[i].paused /\ PassesFilters(cycles[i].text)
                  /\ cycles[i].text # cycles[i].before) => cycles[i].sent)

\* a cycle ran while paused and delivered nothing although its text passes the
\* filters; the next cycle ran after resume and was delivered
C18_Witness ==
    /\ Len(cycles) = 2
    /\ cycles[1].paused /\ PassesFilters(cycles[1].text) /\ ~cycles[1].sent
    /\ ~cycles[2].paused /\ cycles[2].sent
    /\ subtitles_sent = 1

-----------------------------------------------------------------------------
(* History replay                                                           *)

\* h is the most recent min(k, max_history) of k accepted subtitles, in delivery order
IsRecent(h, k) ==
    /\ Len(h) = (IF k < max_history THEN k ELSE max_history)
    /\ \A i \in 1..Len(h) : h[i].timestamp = k - Len(h) + i

\* C19: when no send_subtitle call is under way the history is the most recent
\* min(k, max_history) of the k accepted subtitles in delivery order, and a sink
\* that joins after at least one subtitle is sent a history that is exactly that.
C19_HistoryReplayed ==
    /\ [](pcSend = "idle" => IsRecent(subtitle_history, subtitles_sent))
    /\ [][(clients_connected' = clients_connected + 1 /\ subtitles_sent > 0) =>
            /\ emitted'.event = "history"
            /\ IsRecent(emitted'.payload, subtitles_sent)]_vars

-----------------------------------------------------------------------------
(* The capture buffer's mutex                                               *)

\* C20: buffer_lock is held only while samples are copied into or extracted from
\* the buffer: it is not held while _deliver_chunk (the callback and the enqueue)
\* is executing.
C20_LockNotHeldDuringDelivery == pcC = "deliver" => buffer_lock = "free"

-----------------------------------------------------------------------------
(* C21: the engine lock while a result is de-duplicated and broadcast       *)

\* C21 (as stated): the dispatch loop has released the engine lock by the time
\* the text transcribe() returned is de-duplicated, filtered and broadcast
C21_LockFreeAtDelivery ==
    pcD = "returned" => engine_lock # "dispatch"

-----------------------------------------------------------------------------
(* C22: the engine lock during a hot swap                                  *)

\* switch_model is between its with engine_lock blocks: unloading the old engine,
\* constructing or loading the requested engine or the recovery engine
SwapConstructing == pcS \in {"unload", "create", "loading", "recover", "recover_loading"}

\* switch_model is inside one of its with engine_lock blocks, about to assign
SwapAssigning == pcS \in {"take_old_locked", "install_locked", "recover_install_locked"}

\* C22: the hot-swap thread holds the engine lock exactly while it is about to
\* assign whisper_engine (None, the new engine or the recovery engine), never while
\* an engine is unloaded, constructed or loaded; a dispatch loop waiting for the
\* lock during construction can take it unless it holds it already
C22_LockOnlyForAssignments ==
    /\ engine_lock = "swap" <=> SwapAssigning
    /\ SwapConstructing => engine_lock # "swap"
    /\ SwapConstructing /\ pcD = "acquire" => ENABLED DispatchAcquire

\* C22 witness: while the requested engine is loading, the dispatch loop has taken
\* the lock and found whisper_engine None
C22_Witness ==
    /\ pcS = "loading"
    /\ engine_lock = "dispatch"
    /\ pcD = "nil_sleep"

-----------------------------------------------------------------------------
(* C23: what a duplicate is compared with                                  *)

\* the cycle c got past the empty check and stopped at the duplicate test
SuppressedAsDuplicate(c) ==
    /\ c.text # <<>>
    /\ Len(Strip(c.text)) >= 2
    /\ c.text = c.before

\* C23 (as stated): a cycle whose text is suppressed as a duplicate produced the
\* text of the most recently delivered subtitle; a text that was produced while
\* delivery was paused, or that send_subtitle rejected, suppresses nothing.
C23_SuppressedOnlyIfDelivered ==
    cycles # <<>> /\ SuppressedAsDuplicate(cycles[Len(cycles)]) =>
        /\ subtitle_history # <<>>
        /\ subtitle_history[Len(subtitle_history)].text = Strip(cycles[Len(cycles)].text)

-----------------------------------------------------------------------------
(* The segmenter window by window                                          *)

\* the step is a process_audio call with a block of one window
OneWindowStep == Len(scn.fed') = Len(scn.fed) + 1

\* the score of the window of a one-window step
WindowFed == scn.fed'[Len(scn.fed')]

\* a one-window step whose speech window brings the utterance in progress to
\* max_chunk_size
ForceFlushStep ==
    /\ OneWindowStep
    /\ WindowFed
    /\ in_speech
    /\ DurationAtLeast(Append(speech_buffer, Window(TRUE)), max_chunk_size_ms)

\* C24 (as stated): when the utterance in progress reaches max_chunk_size it is
\* emitted and the segmenter stays in speech for the following windows.
C24_FlushAndContinue ==
    [][ForceFlushStep =>
          /\ segments' = Append(segments, Append(speech_buffer, Window(TRUE)))
          /\ in_speech']_vars

\* C24 amended: when the utterance in progress reaches max_chunk_size it is
\* emitted, window included, and the segmenter returns to idle with an empty
\* utterance buffer, an empty pre-roll and the silence run 0.
C24_FlushAndIdle ==
    [][ForceFlushStep =>
          /\ segments' = Append(segments, Append(speech_buffer, Window(TRUE)))
          /\ ~in_speech'
          /\ speech_buffer' = <<>>
          /\ pre_buffer' = <<>>
          /\ silence_frames' = 0]_vars

\* C24 witness: one segment of max_chunk_size was emitted on a speech window, a
\* second speech window followed and began a new utterance of that window alone
C24_Witness ==
    /\ Len(segments) = 1
    /\ DurationAtLeast(segments[1], max_chunk_size_ms)
    /\ Len(scn.fed) >= 2
    /\ scn.fed[Len(scn.fed)] /\ scn.fed[Len(scn.fed) - 1]
    /\ in_speech
    /\ speech_buffer = <<Window(TRUE)>>

\* the silence run after one more non-speech window lasts min_silence_duration_ms
SilenceRunReaches ==
    (silence_frames + vad_window_size) * 1000 >= min_silence_duration_ms * sample_rate

\* C25: in speech, a non-speech window is appended and the segmenter stays in
\* speech while the run of non-speech windows is shorter than min_silence_duration;
\* a speech window resets the run to 0; when the run reaches min_silence_duration
\* the utterance is flushed (emitted when long enough) and the segmenter is idle
\* with the run at 0.
C25_SilenceRun ==
    [][OneWindowStep =>
          /\ WindowFed => silence_frames' = 0
          /\ in_speech /\ ~WindowFed /\ ~SilenceRunReaches =>
                /\ in_speech'
                /\ speech_buffer' = Append(speech_buffer, Window(FALSE))
                /\ silence_frames' = silence_frames + vad_window_size
                /\ segments' = segments
          /\ in_speech /\ ~WindowFed /\ SilenceRunReaches =>
                /\ ~in_speech'
                /\ speech_buffer' = <<>>
                /\ silence_frames' = 0
                /\ segments' = IF DurationAtLeast(speech_buffer, min_chunk_size_ms)
                               THEN Append(segments, speech_buffer)
                               ELSE segments]_vars

\* C25 witness: an utterance with a short pause inside it (a non-speech window
\* between two speech windows) was emitted on the silence timeout
C25_Witness ==
    /\ Len(segments) = 1
    /\ \E i \in 2..(Len(segments[1]) - 1) :
          /\ segments[1][i - 1].speech
          /\ ~segments[1][i].speech
          /\ segments[1][i + 1].speech
    /\ ~in_speech
    /\ silence_frames = 0
    /\ ~scn.fed[Len(scn.fed)]

\* the pieces are all non-speech
AllNonSpeech(pieces) == \A i \in 1..Len(pieces) : ~pieces[i].speech

\* a holds the last Samples(a) samples of b
IsSampleSuffix(a, b) == Samples(a) <= Samples(b) /\ a = LastSamples(b, Samples(a))

Min(a, b) == IF a < b THEN a ELSE b

FinishStep == scn' = scn /\ Samples(speech_buffer) > 0

\* the step takes the utterance out of the buffer without a window joining it:
\* the silence timeout, or finish()
PlainFlushStep ==
    \/ FinishStep
    \/ OneWindowStep /\ in_speech /\ ~WindowFed /\ SilenceRunReaches

\* C27: every segment emitted, on the silence timeout, on the maximal duration or
\* by finish(), lasts at least min_chunk_size; a flush of a shorter utterance
\* emits nothing and empties the utterance buffer.
C27_NoShortSegment ==
    /\ \A i \in 1..Len(segments) : DurationAtLeast(segments[i], min_chunk_size_ms)
    /\ [][PlainFlushStep =>
             /\ speech_buffer' = <<>>
             /\ segments' = IF DurationAtLeast(speech_buffer, min_chunk_size_ms)
                            THEN Append(segments, speech_buffer)
                            ELSE segments]_vars

\* C27 witness: finish() was called after a speech window on an utterance shorter
\* than min_chunk_size (nothing was emitted for it, the buffer is empty), after a
\* segment had been emitted on the silence timeout
C27_Witness ==
    /\ Len(segments) = 1
    /\ ~segments[1][Len(segments[1])].speech
    /\ Len(scn.fed) >= 2
    /\ scn.fed[Len(scn.fed)] /\ ~scn.fed[Len(scn.fed) - 1]
    /\ ~in_speech
    /\ speech_buffer = <<>>

-----------------------------------------------------------------------------
(* C28: the chunks extracted from a stream                                 *)

\* native samples [k*stride, k*stride + chunk) of the stream, k from 0
StreamSlice(k) ==
    [j \in 1..native_samples_per_chunk |-> StreamSample(k * native_samples_stride + j)]

\* chunks a stream of s native samples holds
ChunksIn(s) ==
    IF s >= native_samples_per_chunk
    THEN (s - native_samples_per_chunk) \div native_samples_stride + 1
    ELSE 0

Values(chunk) == { chunk[i] : i \in 1..Len(chunk) }

\* resampled samples two consecutive chunks have in common
SharedSamples == native_samples_overlap \div ResampleRatio

\* C28: of S native samples fed frame by frame without overflow the capture stage
\* extracts floor((S - chunk)/stride) + 1 chunks when S >= chunk and none
\* otherwise; chunk k is the resampled native samples [k*stride, k*stride + chunk),
\* so consecutive chunks share the overlap and nothing else, and the buffer holds
\* what follows the start of the next chunk.
C28_ChunksOfStream ==
    /\ overflowResets = 0
    /\ nextChunk = ChunksIn(feed.samples)
    /\ buffer = [j \in 1..(feed.samples - nextChunk * native_samples_stride) |->
                    StreamSample(nextChunk * native_samples_stride + j)]
    /\ \A item \in Delivered : item.samples = _fast_resample(StreamSlice(item.id - 1))
    /\ callback => Len(callbackLog) = nextChunk
    /\ \A k \in 1..(Len(callbackLog) - 1) :
          LET a == callbackLog[k].samples
              b == callbackLog[k + 1].samples
          IN  /\ SubSeq(a, Len(a) - SharedSamples + 1, Len(a)) = SubSeq(b, 1, SharedSamples)
              /\ Cardinality(Values(a) \cap Values(b)) = SharedSamples

\* C28 witness: with an overlap, 15 native samples gave 4 chunks to the callback
C28_Witness ==
    /\ native_samples_overlap > 0
    /\ feed.samples >= native_samples_per_chunk + 3 * native_samples_stride
    /\ Len(callbackLog) = 4
    /\ overflowResets = 0

\* the same without overlap: 3 contiguous chunks
C28_DisjointReached ==
    /\ native_samples_overlap = 0
    /\ Len(callbackLog) = 3

-----------------------------------------------------------------------------
(* C29: the capture buffer and its overflow                                *)

\* the last n samples of s
LastOf(s, n) == SubSeq(s, Len(s) - n + 1, Len(s))

\* what a callback does, given the frame it was called with: kept is what the
\* buffer holds once the frame is written
CallbackKeeps(audio, kept) ==
    LET taken == nextChunk' - nextChunk
    IN  /\ taken = ChunksIn(Len(kept))
        /\ buffer' = LastOf(kept, Len(kept) - taken * native_samples_stride)

-----------------------------------------------------------------------------
(* C30: a hot-swap request that is accepted                                *)

\* C30 (as stated): once the do_switch thread of an accepted request (a known
\* model that is not the current one, no swap in progress) has made its call,
\* switch_model has been entered with the model asked for.
C30_AcceptedRequestRunsSwap ==
    \A t \in RequestThreads :
        switchThreads[t] = "finally" =>
            /\ swapCalls >= 1
            /\ swapArgs # NoRequest

-----------------------------------------------------------------------------
(* C31: repeated phrases                                                   *)

\* the words of a text, as both filters see them
WordsOf(raw) == Split(Strip(Lower(raw)))

\* some phrase of n consecutive words occurs at two places of ws, at least gap
\* words apart (gap = n: the occurrences do not overlap)
PhraseTwice(ws, n, gap) ==
    \E i, j \in 1..(Len(ws) - n + 1) :
        /\ j >= i + gap
        /\ SubSeq(ws, i, i + n - 1) = SubSeq(ws, j, j + n - 1)

\* one of the two filters rejects the decoder output
Rejected(raw) == is_hallucination(Strip(raw)) \/ _is_hallucination(Strip(raw))

\* C31 (as stated): every text in which a phrase of 1 to 5 consecutive words
\* occurs at least twice is rejected: no cycle delivers it.
C31_AnyRepeatRejected ==
    \A i \in 1..Len(cycles) :
        (\E n \in 1..5 : PhraseTwice(WordsOf(cycles[i].raw), n, 1))
        => Rejected(cycles[i].raw) /\ ~cycles[i].sent

\* C31 amended: every text in which a phrase of 3 to 5 consecutive words occurs
\* twice without overlap is rejected and never delivered; a phrase of 1 or 2 words
\* is rejected when it is said three times at the start of the text, and said
\* twice elsewhere ("the cat sat on the mat", "on the mat by the mat") the text
\* passes both filters and is delivered unless it repeats the previous output.
C31_LongRepeatRejected ==
    /\ \A i \in 1..Len(cycles) :
          (\E n \in 3..5 : PhraseTwice(WordsOf(cycles[i].raw), n, n))
          => Rejected(cycles[i].raw) /\ ~cycles[i].sent
    /\ \A i \in CyclesOf(T_go_go_go) : ~cycles[i].sent
    /\ \A raw \in {T_cat_on_mat, T_mat_by_mat} :
          /\ \E n \in 1..2 : PhraseTwice(WordsOf(raw), n, n)
          /\ ~Rejected(raw)
          /\ \A i \in CyclesOf(raw) : cycles[i].sent <=> cycles[i].before # raw

\* C31 witness: "the cat sat on the cat sat" reached send_subtitle and was not
\* delivered; "on the mat by the mat" was delivered next
C31_Witness ==
    /\ Len(cycles) = 2
    /\ cycles[1].raw = T_cat_on_cat /\ cycles[1].text = T_cat_on_cat /\ ~cycles[1].sent
    /\ cycles[2].raw = T_mat_by_mat /\ cycles[2].sent
    /\ subtitle_history[Len(subtitle_history)].text = T_mat_by_mat

-----------------------------------------------------------------------------
(* C32: empty results                                                      *)

\* the step in which transcribe() returns; the record of the cycle is the last of cycles'
ReturnStep == pcD = "translating" /\ pcD' # "translating"

\* C32: a cycle whose result is empty or shorter than 2 characters once stripped
\* delivers nothing, logs no error and does not back off (the loop is at its top
\* again, the engine lock free), and leaves last_output_text and everything the
\* web server holds (history, counter, speaker, latencies) as they were.
C32_EmptyResultSilent ==
    [][(/\ ReturnStep
        /\ pcD' # "backoff"
        /\ Len(Strip(cycles'[Len(cycles')].text)) < 2)
       => /\ pcD' = "top"
          /\ engine_lock' = "free"
          /\ UNCHANGED <<last_output_text, errorsLogged, serverVars>>
          /\ ~cycles'[Len(cycles')].sent]_vars

\* C32 witness: after a delivered subtitle a cycle returned a one-character result
\* (turned into '' by transcribe()): the last output and the counter are those of
\* the delivery, no error was logged
C32_Witness ==
    /\ Len(cycles) = 2
    /\ cycles[1].sent
    /\ cycles[2].raw = T_short /\ cycles[2].text = <<>> /\ ~cycles[2].sent
    /\ last_output_text = cycles[1].text
    /\ subtitles_sent = 1 /\ Len(subtitle_history) = 1
    /\ errorsLogged = 0
    /\ pcD = "top"

-----------------------------------------------------------------------------
(* C33: silence after an utterance, in VAD mode                            *)

\* the captured input has been silent for min_silence_duration_ms and one capture
\* chunk more
SilentLongEnough ==
    /\ feed.level = QuietLevel
    /\ feed.samples >= SilenceWindows + MaxBlockWindows

\* C33 (as stated): once the captured input has stayed silent for
\* min_silence_duration (and the length of a capture chunk), no utterance is
\* pending: it was flushed.
C33_SilenceFlushesUtterance ==
    SilentLongEnough => ~in_speech /\ speech_buffer = <<>>

-----------------------------------------------------------------------------
\* C34: in the backlog discard the put-back of the newest drained chunk never waits
\* on a full queue: whenever the dispatch loop stands at the put-back with a chunk
\* in hand, the queue has room for it (the dispatch loop is the queue's only
\* consumer, so a put-back that finds the queue full waits for ever)
C34_PutBackHasRoom ==
    (pcD = "putback" /\ newest_chunk # NoChunk) => Len(audio_queue) < MAX_QUEUE_SIZE

\* the state in which the put-back waits: it stays as it is whatever runs next
PutBackBlocked ==
    pcD = "putback" /\ newest_chunk # NoChunk /\ Len(audio_queue) = MAX_QUEUE_SIZE

C34_BlockedForEver == [][PutBackBlocked => PutBackBlocked']_vars

\* C35: chunks are translated in production order: the ids passed to transcribe()
\* are increasing
C35_TranslatedInOrder ==
    \A i, j \in DOMAIN translated : i < j => translated[i] < translated[j]

-----------------------------------------------------------------------------
\* the engine an id of the model table stands for (AVAILABLE_MODELS: model,
\* compute_type, beam_size, backend)
AvailableModel(id) ==
    IF id = "medium:float16:5"
    THEN Engine("faster_whisper", "medium", 5, "float16", TRUE)
    ELSE Engine("faster_whisper", "large-v3", 5, "float16", TRUE)

\* a switch request was accepted and its do_switch thread has finished
SwitchAttemptCompleted ==
    \E t \in RequestThreads : reqAnswer[t] = "switching" /\ switchThreads[t] = "none"

\* C36: once a hot-swap attempt has completed, the id the server reports names the
\* engine that is installed, and a request answered 'already_loaded' asked for the
\* engine that is installed
C36_ReportedEngineInstalled ==
    SwitchAttemptCompleted =>
        /\ whisper_engine = AvailableModel(current_model)
        /\ \A t \in RequestThreads :
              reqAnswer[t] = "already_loaded" => whisper_engine = AvailableModel(reqModel[t])

-----------------------------------------------------------------------------
\* C37: while a transcribe() call is in progress the dispatch loop holds engine_lock
\* and the engine it called is installed, and no step taken during the call
\* changes whisper_engine: the swap's "whisper_engine = None" waits for the call
C37_EngineKeptDuringCall ==
    /\ [](pcD = "translating" => engine_lock = "dispatch" /\ whisper_engine # NoEngine)
    /\ [][pcD = "translating" => whisper_engine' = whisper_engine]_vars

\* a swap has been called and stands before Step 1 while a transcribe() call runs
C37_Witness == pcD = "translating" /\ pcS = "take_old" /\ swapCalls >= 1

-----------------------------------------------------------------------------
\* samples handed to process_audio so far that no window has scored
Unscored == feed.samples - Len(scn.fed) * vad_window_size

\* C38: no sample is lost between process_audio calls: the samples not yet scored
\* are the retained end of the last block, less than one window
C38_NoSampleLost == Unscored < vad_window_size

-----------------------------------------------------------------------------
\* where the window of a one-window step went: it is the newest piece of the
\* utterance in progress, or it joined the utterance that the step emitted (maximal
\* duration), or it is the newest piece of the pre-roll
WindowPlaced ==
    LET window == Window(WindowFed)
    IN  \/ /\ Len(speech_buffer') > Len(speech_buffer)
           /\ speech_buffer'[Len(speech_buffer')] = window
        \/ /\ Len(segments') = Len(segments) + 1
           /\ segments'[Len(segments')] \in
                 {Append(speech_buffer, window), pre_buffer \o <<window>>}
        \/ /\ pre_buffer' # <<>>
           /\ pre_buffer'[Len(pre_buffer')] =
                 [speech |-> WindowFed, n |-> Min(vad_window_size, pre_buffer_max)]

\* the non-speech window that brings the silence run to min_silence_duration
ClosingWindow == in_speech /\ ~WindowFed /\ SilenceRunReaches

\* C39 (as stated): every scored window is placed in the utterance in progress or
\* in the pre-roll.
C39_EveryWindowPlaced == [][OneWindowStep => WindowPlaced]_vars

\* C39 amended: every scored window is placed in the utterance in progress or in
\* the pre-roll, except the non-speech window that brings the silence run to
\* min_silence_duration: it ends the utterance and is kept nowhere.
C39_PlacedUnlessClosing ==
    [][OneWindowStep => (WindowPlaced <=> ~ClosingWindow)]_vars

\* C39 witness: the last window was non-speech and ended an utterance that was
\* emitted; the segmenter is idle and the pre-roll does not hold the window
C39_Witness ==
    /\ Len(scn.fed) >= 3
    /\ ~scn.fed[Len(scn.fed)]
    /\ Len(segments) >= 1
    /\ ~in_speech
    /\ speech_buffer = <<>>
    /\ pre_buffer = <<>>

-----------------------------------------------------------------------------
\* an iteration of the chunk-extraction loop begins
ExtractStep == pcC = "loop" /\ pcC' = "deliver"

\* C40: for every overlap the constructor takes, the chunk-extraction loop exits:
\* every iteration leaves fewer samples buffered than it found (the loop runs while
\* a whole chunk is buffered), and the callback returns with less than a chunk
C40_ExtractionLoopExits ==
    /\ [](pcC = "idle" => Len(buffer) < native_samples_per_chunk)
    /\ [][ExtractStep => Len(buffer') < Len(buffer)]_vars

\* with the overlap as long as the chunk, a callback that has found a whole chunk
\* buffered never returns
C40_LoopForEver ==
    [][(native_samples_stride = 0 /\ pcC # "idle"
          /\ Len(buffer) >= native_samples_per_chunk) => pcC' # "idle"]_vars
====
